---- MODULE Spec2Model ----
(***************************************************************************)
(* EDI 944 direct parser (EDIParser._direct_parser, src/edi_parser.py).    *)
(*                                                                         *)
(* A Python string is modelled as a sequence of lexical atoms: the segment *)
(* delimiter "~", the element delimiter "*", the whitespace characters " " *)
(* and "\n", and words (runs of other characters such as "W17" or "944").  *)
(* The empty string is <<>>.  str.strip, str.split, str.startswith and the *)
(* `in` test are defined on these sequences the way Python defines them on *)
(* characters.  A dict is a function whose DOMAIN is its key set; a Python *)
(* reference into a list (current_n1, current_w07) is the 1-based index of *)
(* the referenced entry, 0 standing for None.                              *)
(***************************************************************************)
EXTENDS Integers, Sequences, FiniteSets, TLC

VARIABLES
    edi_data,         \* the argument of _direct_parser
    pc,               \* position of the call
    segments,         \* the segment list (line 236)
    pos,              \* index of the next segment of the for loop (line 243)
    json_structure,   \* the document under construction
    current_section,  \* "none" | "header" | "detail" | "summary"
    current_w07,      \* index into detail.W07Loop, 0 = None
    current_n1,       \* index into header.N1Loop, 0 = None
    walk_result,      \* history: json_structure as the main walk left it
    calls,            \* number of calls of _direct_parser made so far
    returned,         \* history: <<input, document>> of the calls that returned
    api_key,          \* the credential: EDIParser.api_key, config["openai_api_key"]
    parse_pc,         \* position of the call of EDIParser.parse
    parse_edi_data,   \* the argument of parse
    cleaned_edi,      \* parse's local (line 138)
    output,           \* what the LLM chain did when invoked (line 146)
    parse_result,     \* the value parse returned
    chain_invocations, \* history: number of chain.invoke calls
    proc_pc,          \* position of the call of process_edi_data
    proc_edi_data,    \* the argument edi_data of process_edi_data
    input_type,       \* its Python type: "str", "NoneType" or "int"
    use_direct_parser, \* the argument use_direct_parser
    cleaned_edi_data, \* process_edi_data's local (line 106)
    proc_result,      \* the tuple process_edi_data returned
    gate_passed,      \* history: the checks of lines 109-118 let the input through
    faults,           \* history: number of exceptions caught at line 151
    ftp_pc,           \* position of the call of FTPTransfer.transfer
    config,           \* FTPTransfer.config
    data,             \* the argument data of transfer
    file_format,      \* the argument file_format
    temp_file,        \* the temporary file: "none" | "empty" | "written" | "removed"
    temp_content,     \* what was written to it
    transports,       \* history: the _transfer_* methods called, in order
    transport_result, \* transfer's locals success, message (lines 60-65)
    uploaded,         \* the server: <<transport, remote file name, content>> stored
    ftp_result        \* the tuple transfer returned

\* The state of EDIParser.parse and of the LLM chain.
parseVars == <<api_key, parse_pc, parse_edi_data, cleaned_edi, output,
               parse_result, chain_invocations>>

\* The state of process_edi_data.
procVars == <<proc_pc, proc_edi_data, input_type, use_direct_parser,
              cleaned_edi_data, proc_result, gate_passed, faults>>

\* The state of FTPTransfer.transfer and of the server.
ftpVars == <<ftp_pc, config, data, file_format, temp_file, temp_content,
             transports, transport_result, uploaded, ftp_result>>

callerVars == <<parseVars, procVars, ftpVars>>

vars == <<edi_data, pc, segments, pos, json_structure, current_section,
          current_w07, current_n1, walk_result, calls, returned, callerVars>>

(***************************************************************************)
(* Bounds and the input alphabet                                           *)
(***************************************************************************)
MaxSegs == 4

MaxTokSegs == 3

MaxCalls == 3

MaxCallSegs == 2

MaxParseSegs == 2

MaxProcSegs == 3

MaxBackfillSegs == 4

MaxEquivSegs == 4

Whitespace == {" ", "\n"}

\* The `~`-separated pieces an input is assembled from.
Pieces ==
    { <<"ST", "*", "944">>,
      <<"W17", "*", "F", "*", "D1", "*", "R1", "*", "S1", "*", "C1", "*", "9">>,
      <<"W17", "*", "G", "*", "D2">>,
      <<"N1", "*", "WH", "*", "D7">>,
      <<"N1", "*", "SF">>,
      <<"N9", "*", "ZZ", "*", "E1">>,
      <<"N9", "*", "CL">>,
      <<"W07", "*", "3024", "*", "EA", "*", "U1", "*", "VN", "*", "P1">>,
      <<"W07", "*", "6000">>,
      <<"G69", "*", "DESC">>,
      <<"G69">>,
      <<"W13", "*", "10">>,
      <<"W13", "*", "30">>,
      <<"W14", "*", "20">>,
      <<"SE", "*", "70">> }

\* Pieces of the inputs of a series of calls.
CallPieces ==
    { <<"ST", "*", "944">>,
      <<"W17", "*", "G", "*", "D2">>,
      <<"N1", "*", "SF">>,
      <<"N9", "*", "CL">>,
      <<"W07", "*", "6000">>,
      <<"G69", "*", "DESC">>,
      <<"W13", "*", "10">> }

\* Pieces of the inputs of EDIParser.parse: segments of every kind, some
\* with a newline or with blanks in front of or behind them.
ParsePieces ==
    { <<"ST", "*", "944">>,
      <<"W17", "*", "G", "*", "D2">>,
      <<"N1", "*", "SF">>,
      <<"\n", "N1", "*", "WH">>,
      <<"N9", "*", "CL">>,
      <<"W07", "*", "6000">>,
      <<" ", " ", "W07", "*", "1", " ">>,
      <<"G69", "*", "DESC">>,
      <<"W13", "*", "10">> }

\* Pieces of the inputs of process_edi_data: segments of every kind, one
\* whose elements read like tags, one with a newline in front, one bare tag.
ProcPieces ==
    { <<"ST", "*", "944">>,
      <<"W17", "*", "G", "*", "D2">>,
      <<"W17">>,
      <<"N1", "*", "SF">>,
      <<"\n", "N1", "*", "WH">>,
      <<"N9", "*", "CL">>,
      <<"N9", "*", "W17", "*", "N1", "*", "X">>,
      <<"W07", "*", "6000">>,
      <<"G69", "*", "DESC">>,
      <<"W13", "*", "10">> }

RECURSIVE Join(_)
Join(ps) ==
    IF ps = <<>> THEN <<>>
    ELSE IF Len(ps) = 1 THEN ps[1]
    ELSE ps[1] \o <<"~">> \o Join(Tail(ps))

\* The inputs made of at most n of the given pieces, joined by `~`.
InputsFrom(pieces, n) == UNION { { Join(ps) : ps \in [1..m -> pieces] } : m \in 0..n }

\* Pieces for the tokenizer: empty and blank pieces, pieces with whitespace
\* around them, and bare tags without any element delimiter.
TokPieces ==
    { <<>>,
      <<" ">>,
      <<"N1">>,
      <<"W07">>,
      <<"W13">>,
      <<"W17">>,
      <<"N9">>,
      <<"ST", "*", "944">>,
      <<"ST", "*", "940">>,
      <<"W17", "*", "G", "*", "D2">>,
      <<"W17", "*", "F", "*", "D1", "*", "R1", "*", "S1", "*", "C1", "*", "9", "*", "1337">>,
      <<"N1", "*", "WH", "*", "D7">>,
      <<"\n", "N1", "*", "WH", "*", "D7">>,
      <<"N9", "*", "ZZ", "*", "E1">>,
      <<"W07", "*", "6000">>,
      <<" ", "W07", "*", "1", "*", "EA">>,
      <<"\n", "W13">>,
      <<"G69", "*", "DESC">>,
      <<"W14", "*", "20", " ">> }


(***************************************************************************)
(* Python string operations                                                *)
(***************************************************************************)
\* str.strip(): drop the leading and the trailing whitespace
strip(s) ==
    LET inked == {k \in 1..Len(s) : s[k] \notin Whitespace}
    IN  IF inked = {} THEN <<>>
        ELSE SubSeq(s, CHOOSE k \in inked : \A j \in inked : k <= j,
                       CHOOSE k \in inked : \A j \in inked : j <= k)

\* d in s
contains(s, d) == \E k \in 1..Len(s) : s[k] = d

\* str.split(d): the pieces between the occurrences of d, empty ones
\* included; a string without d is its own single piece
split(s, d) ==
    LET at == {k \in 1..Len(s) : s[k] = d}
        n == Cardinality(at)
        cut(j) == IF j = 0 THEN 0
                  ELSE IF j = n + 1 THEN Len(s) + 1
                  ELSE CHOOSE k \in at : Cardinality({m \in at : m <= k}) = j
    IN  [j \in 1..(n + 1) |-> SubSeq(s, cut(j - 1) + 1, cut(j) - 1)]

\* s.startswith(p)
startswith(s, p) == Len(s) >= Len(p) /\ SubSeq(s, 1, Len(p)) = p

SelectNonEmpty(ss) == SelectSeq(ss, LAMBDA s : s # <<>>)

(***************************************************************************)
(* Dicts                                                                   *)
(***************************************************************************)
EmptyDict == <<>>

DictSet(d, k, v) == [x \in (DOMAIN d) \cup {k} |-> IF x = k THEN v ELSE d[x]]

(***************************************************************************)
(* Records the parser writes                                               *)
(***************************************************************************)
\* Mutant: the bound is off by one, the last element is never read.
ElementOr_OffByOne(elements, k) ==
    IF Len(elements) > k + 1 THEN elements[k + 1] ELSE <<>>

\* elements[k] if len(elements) > k else ""   (k is the 0-based Python index)
ElementOr(elements, k) == IF Len(elements) > k THEN elements[k + 1] ELSE <<>>

W17Record(elements) ==
    [ receiptType     |-> ElementOr(elements, 1),
      date            |-> ElementOr(elements, 2),
      receiptNumber   |-> ElementOr(elements, 3),
      shipmentNumber  |-> ElementOr(elements, 4),
      containerNumber |-> ElementOr(elements, 5),
      numberOfLines   |-> ElementOr(elements, 6),
      totalQuantity   |-> ElementOr(elements, 7) ]

N1Entry(elements) ==
    [ N1 |-> [ entityIdentifier |-> ElementOr(elements, 1),
               name             |-> ElementOr(elements, 2) ],
      N9 |-> <<>> ]

N9Entry(elements) ==
    [ referenceIdQualifier |-> ElementOr(elements, 1),
      referenceId          |-> ElementOr(elements, 2) ]

W07Entry(elements) ==
    [ W07 |-> [ quantity           |-> ElementOr(elements, 1),
                unitOfMeasure      |-> ElementOr(elements, 2),
                upc                |-> ElementOr(elements, 3),
                productIdQualifier |-> ElementOr(elements, 4),
                productId          |-> ElementOr(elements, 5) ],
      N9  |-> <<>> ]

SummaryRecord(elements) == [ totalQuantity |-> ElementOr(elements, 1) ]

\* Mutant: the skeleton leaves transactionSet blank for the ST segment to fill.
Skeleton_BlankTransactionSet ==
    [ transactionSet |-> <<>>,
      header         |-> EmptyDict,
      detail         |-> [ W07Loop |-> <<>> ],
      summary        |-> EmptyDict ]

\* Mutant: the skeleton without the W07Loop list.
Skeleton_NoW07Loop ==
    [ transactionSet |-> <<"944">>,
      header         |-> EmptyDict,
      detail         |-> EmptyDict,
      summary        |-> EmptyDict ]

Skeleton ==
    [ transactionSet |-> <<"944">>,
      header         |-> EmptyDict,
      detail         |-> [ W07Loop |-> <<>> ],
      summary        |-> EmptyDict ]

\* Mutant: every piece is trimmed before the empty ones are discarded.
Tokenize_Trimmed(text) ==
    CHOOSE segs \in { SelectNonEmpty([k \in 1..Len(parts) |-> strip(parts[k])]) :
                         parts \in {split(strip(text), "~")} } : TRUE

\* segments = [s for s in edi_data.strip().split("~") if s]
\* (the stripped text is bound once, then split and filtered)
Tokenize(text) ==
    CHOOSE segs \in { SelectNonEmpty(split(stripped, "~")) :
                         stripped \in {strip(text)} } : TRUE

segment_type(segment) == split(segment, "*")[1]

(***************************************************************************)
(* The call                                                                *)
(***************************************************************************)
\* FTPTransfer.transfer is not running.
NoTransfer ==
    /\ ftp_pc = "idle"
    /\ config = EmptyDict
    /\ data = EmptyDict
    /\ file_format = "json"
    /\ temp_file = "none"
    /\ temp_content = <<>>
    /\ transports = <<>>
    /\ transport_result = <<>>
    /\ uploaded = {}
    /\ ftp_result = <<>>

\* process_edi_data is not running.
NoProcess ==
    /\ proc_pc = "idle"
    /\ proc_edi_data = <<>>
    /\ input_type = "str"
    /\ use_direct_parser = FALSE
    /\ cleaned_edi_data = <<>>
    /\ proc_result = <<>>
    /\ gate_passed = FALSE
    /\ faults = 0

\* _direct_parser is called on its own: parse and process_edi_data are not
\* running and there is no credential.
NoCaller ==
    /\ NoProcess
    /\ NoTransfer
    /\ api_key = ""
    /\ parse_pc = "idle"
    /\ parse_edi_data = <<>>
    /\ cleaned_edi = <<>>
    /\ output = EmptyDict
    /\ parse_result = EmptyDict
    /\ chain_invocations = 0

Init ==
    /\ \E m \in 0..MaxSegs : \E ps \in [1..m -> Pieces] : edi_data = Join(ps)
    /\ pc = "start"
    /\ segments = <<>>
    /\ pos = 1
    /\ json_structure = EmptyDict
    /\ current_section = "none"
    /\ current_w07 = 0
    /\ current_n1 = 0
    /\ walk_result = EmptyDict
    /\ calls = 1
    /\ returned = {}
    /\ NoCaller

\* Where control goes once segment number `done` has been processed.
AfterSegment(segs, done) == IF done < Len(segs) THEN "walk" ELSE "w17_backfill"

\* Mutant: the early return for empty input (lines 232-233) is missing.
Start_NoEarlyReturn ==
    /\ pc = "start"
    /\ json_structure' = Skeleton
    /\ current_section' = "none"
    /\ current_w07' = 0
    /\ current_n1' = 0
    /\ pos' = 1
    /\ segments' = Tokenize(edi_data)
    /\ pc' = AfterSegment(segments', 0)
    /\ walk_result' = IF segments' = <<>> THEN Skeleton ELSE walk_result
    /\ UNCHANGED <<edi_data, calls, returned, callerVars>>

\* Mutant: the document is an object shared by the calls (built once), not
\* a literal evaluated in each call.
Start_SharedDocument ==
    /\ pc = "start"
    /\ json_structure' = IF json_structure = EmptyDict THEN Skeleton ELSE json_structure
    /\ current_section' = "none"
    /\ current_w07' = 0
    /\ current_n1' = 0
    /\ pos' = 1
    /\ IF edi_data = <<>>
       THEN /\ pc' = "done"
            /\ segments' = <<>>
            /\ walk_result' = json_structure'
       ELSE /\ segments' = Tokenize(edi_data)
            /\ pc' = AfterSegment(segments', 0)
            /\ walk_result' = IF segments' = <<>> THEN json_structure' ELSE walk_result
    /\ UNCHANGED <<edi_data, calls, returned, callerVars>>

\* Lines 222-241: build the skeleton, return it for empty input, else
\* tokenize and reset the context.
Start ==
    /\ pc = "start"
    /\ json_structure' = Skeleton
    /\ current_section' = "none"
    /\ current_w07' = 0
    /\ current_n1' = 0
    /\ pos' = 1
    /\ IF edi_data = <<>>
       THEN /\ pc' = "done"
            /\ segments' = <<>>
            /\ walk_result' = Skeleton
       ELSE /\ segments' = Tokenize(edi_data)
            /\ pc' = AfterSegment(segments', 0)
            /\ walk_result' = IF segments' = <<>> THEN Skeleton ELSE walk_result
    /\ UNCHANGED <<edi_data, calls, returned, callerVars>>

(***************************************************************************)
(* The main walk (lines 243-336), one action per branch of the elif chain  *)
(***************************************************************************)
segment == segments[pos]

elements == split(segment, "*")

\* Leave the loop body: next segment, or fall out of the loop.
NextSegment ==
    /\ pos' = pos + 1
    /\ pc' = AfterSegment(segments, pos)
    /\ walk_result' = IF pc' = "w17_backfill" THEN json_structure' ELSE walk_result
    /\ UNCHANGED <<edi_data, segments, calls, returned, callerVars>>

IsST944 ==
    elements[1] = <<"ST">> /\ Len(elements) > 1 /\ elements[2] = <<"944">>

G69Applies ==
    elements[1] = <<"G69">> /\ current_section = "detail" /\ current_w07 # 0

\* Lines 252-254
WalkST ==
    /\ pc = "walk"
    /\ IsST944
    /\ json_structure' = [json_structure EXCEPT !.transactionSet = <<"944">>]
    /\ current_section' = "header"
    /\ UNCHANGED <<current_w07, current_n1>>
    /\ NextSegment

\* Mutant: the section is set only when the W17 record is stored.
WalkW17_SectionWhenStored ==
    /\ pc = "walk"
    /\ elements[1] = <<"W17">>
    /\ current_section' = IF Len(elements) >= 7 THEN "header" ELSE current_section
    /\ json_structure' =
          IF Len(elements) >= 7
          THEN [json_structure EXCEPT
                    !.header = DictSet(@, "W17", W17Record(elements))]
          ELSE json_structure
    /\ UNCHANGED <<current_w07, current_n1>>
    /\ NextSegment

\* Lines 257-268
WalkW17 ==
    /\ pc = "walk"
    /\ elements[1] = <<"W17">>
    /\ current_section' = "header"
    /\ json_structure' =
          IF Len(elements) >= 7
          THEN [json_structure EXCEPT
                    !.header = DictSet(@, "W17", W17Record(elements))]
          ELSE json_structure
    /\ UNCHANGED <<current_w07, current_n1>>
    /\ NextSegment

\* Mutant: an N1 segment without a name opens no entry.
WalkN1_OnlyWhenNamed ==
    /\ pc = "walk"
    /\ elements[1] = <<"N1">>
    /\ current_section' = "header"
    /\ LET loop == IF "N1Loop" \in DOMAIN json_structure.header
                   THEN json_structure.header["N1Loop"]
                   ELSE <<>>
       IN  IF Len(elements) >= 3
           THEN /\ json_structure' =
                      [json_structure EXCEPT
                          !.header = DictSet(@, "N1Loop", Append(loop, N1Entry(elements)))]
                /\ current_n1' = Len(loop) + 1
           ELSE UNCHANGED <<json_structure, current_n1>>
    /\ UNCHANGED current_w07
    /\ NextSegment

\* Mutant: current_n1 keeps the entry it already refers to.
WalkN1_StalePointer ==
    /\ pc = "walk"
    /\ elements[1] = <<"N1">>
    /\ current_section' = "header"
    /\ LET loop == IF "N1Loop" \in DOMAIN json_structure.header
                   THEN json_structure.header["N1Loop"]
                   ELSE <<>>
       IN  /\ json_structure' =
                 [json_structure EXCEPT
                     !.header = DictSet(@, "N1Loop", Append(loop, N1Entry(elements)))]
           /\ current_n1' = IF current_n1 = 0 THEN Len(loop) + 1 ELSE current_n1
    /\ UNCHANGED current_w07
    /\ NextSegment

\* Lines 271-284
WalkN1 ==
    /\ pc = "walk"
    /\ elements[1] = <<"N1">>
    /\ current_section' = "header"
    /\ LET loop == IF "N1Loop" \in DOMAIN json_structure.header
                   THEN json_structure.header["N1Loop"]
                   ELSE <<>>
       IN  /\ json_structure' =
                 [json_structure EXCEPT
                     !.header = DictSet(@, "N1Loop", Append(loop, N1Entry(elements)))]
           /\ current_n1' = Len(loop) + 1
    /\ UNCHANGED current_w07
    /\ NextSegment

\* Mutant: an N9 entry is put in front of its list.
WalkN9_Prepend ==
    /\ pc = "walk"
    /\ elements[1] = <<"N9">>
    /\ json_structure' =
          IF current_section = "header" /\ current_n1 # 0
          THEN [json_structure EXCEPT
                    !.header["N1Loop"][current_n1].N9 = <<N9Entry(elements)>> \o @]
          ELSE IF current_section = "detail" /\ current_w07 # 0
          THEN [json_structure EXCEPT
                    !.detail.W07Loop[current_w07].N9 = <<N9Entry(elements)>> \o @]
          ELSE IF /\ "N1Loop" \in DOMAIN json_structure.header
                  /\ json_structure.header["N1Loop"] # <<>>
          THEN [json_structure EXCEPT
                    !.header["N1Loop"][Len(json_structure.header["N1Loop"])].N9 =
                        <<N9Entry(elements)>> \o @]
          ELSE json_structure
    /\ UNCHANGED <<current_section, current_w07, current_n1>>
    /\ NextSegment

\* Mutant: the fallback appends to the first N1Loop entry.
WalkN9_FallbackFirst ==
    /\ pc = "walk"
    /\ elements[1] = <<"N9">>
    /\ json_structure' =
          IF current_section = "header" /\ current_n1 # 0
          THEN [json_structure EXCEPT
                    !.header["N1Loop"][current_n1].N9 = Append(@, N9Entry(elements))]
          ELSE IF current_section = "detail" /\ current_w07 # 0
          THEN [json_structure EXCEPT
                    !.detail.W07Loop[current_w07].N9 = Append(@, N9Entry(elements))]
          ELSE IF /\ "N1Loop" \in DOMAIN json_structure.header
                  /\ json_structure.header["N1Loop"] # <<>>
          THEN [json_structure EXCEPT
                    !.header["N1Loop"][1].N9 = Append(@, N9Entry(elements))]
          ELSE json_structure
    /\ UNCHANGED <<current_section, current_w07, current_n1>>
    /\ NextSegment

\* Mutant: the fallback to the last N1Loop entry (lines 302-308) is missing.
WalkN9_NoFallback ==
    /\ pc = "walk"
    /\ elements[1] = <<"N9">>
    /\ json_structure' =
          IF current_section = "header" /\ current_n1 # 0
          THEN [json_structure EXCEPT
                    !.header["N1Loop"][current_n1].N9 = Append(@, N9Entry(elements))]
          ELSE IF current_section = "detail" /\ current_w07 # 0
          THEN [json_structure EXCEPT
                    !.detail.W07Loop[current_w07].N9 = Append(@, N9Entry(elements))]
          ELSE json_structure
    /\ UNCHANGED <<current_section, current_w07, current_n1>>
    /\ NextSegment

\* Mutant: an N9 with no N1Loop to fall back on goes to the open W07 entry.
WalkN9_FallbackToW07 ==
    /\ pc = "walk"
    /\ elements[1] = <<"N9">>
    /\ json_structure' =
          IF current_section = "header" /\ current_n1 # 0
          THEN [json_structure EXCEPT
                    !.header["N1Loop"][current_n1].N9 = Append(@, N9Entry(elements))]
          ELSE IF current_section = "detail" /\ current_w07 # 0
          THEN [json_structure EXCEPT
                    !.detail.W07Loop[current_w07].N9 = Append(@, N9Entry(elements))]
          ELSE IF /\ "N1Loop" \in DOMAIN json_structure.header
                  /\ json_structure.header["N1Loop"] # <<>>
          THEN [json_structure EXCEPT
                    !.header["N1Loop"][Len(json_structure.header["N1Loop"])].N9 =
                        Append(@, N9Entry(elements))]
          ELSE IF current_w07 # 0
          THEN [json_structure EXCEPT
                    !.detail.W07Loop[current_w07].N9 = Append(@, N9Entry(elements))]
          ELSE json_structure
    /\ UNCHANGED <<current_section, current_w07, current_n1>>
    /\ NextSegment

\* Lines 287-308
WalkN9 ==
    /\ pc = "walk"
    /\ elements[1] = <<"N9">>
    /\ json_structure' =
          IF current_section = "header" /\ current_n1 # 0
          THEN [json_structure EXCEPT
                    !.header["N1Loop"][current_n1].N9 = Append(@, N9Entry(elements))]
          ELSE IF current_section = "detail" /\ current_w07 # 0
          THEN [json_structure EXCEPT
                    !.detail.W07Loop[current_w07].N9 = Append(@, N9Entry(elements))]
          ELSE IF /\ "N1Loop" \in DOMAIN json_structure.header
                  /\ json_structure.header["N1Loop"] # <<>>
          THEN [json_structure EXCEPT
                    !.header["N1Loop"][Len(json_structure.header["N1Loop"])].N9 =
                        Append(@, N9Entry(elements))]
          ELSE json_structure
    /\ UNCHANGED <<current_section, current_w07, current_n1>>
    /\ NextSegment

\* Mutant: current_w07 keeps pointing at the first entry.
WalkW07_StalePointer ==
    /\ pc = "walk"
    /\ elements[1] = <<"W07">>
    /\ current_section' = "detail"
    /\ json_structure' =
          [json_structure EXCEPT !.detail.W07Loop = Append(@, W07Entry(elements))]
    /\ current_w07' = 1
    /\ UNCHANGED current_n1
    /\ NextSegment

\* Lines 311-324
WalkW07 ==
    /\ pc = "walk"
    /\ elements[1] = <<"W07">>
    /\ current_section' = "detail"
    /\ json_structure' =
          [json_structure EXCEPT !.detail.W07Loop = Append(@, W07Entry(elements))]
    /\ current_w07' = Len(json_structure.detail.W07Loop) + 1
    /\ UNCHANGED current_n1
    /\ NextSegment

\* Mutant: the description is stored on the first W07Loop entry.
WalkG69_FirstEntry ==
    /\ pc = "walk"
    /\ G69Applies
    /\ json_structure' =
          [json_structure EXCEPT
              !.detail.W07Loop[1] = DictSet(@, "G69", ElementOr(elements, 1))]
    /\ UNCHANGED <<current_section, current_w07, current_n1>>
    /\ NextSegment

\* Lines 327-329
WalkG69 ==
    /\ pc = "walk"
    /\ G69Applies
    /\ json_structure' =
          [json_structure EXCEPT
              !.detail.W07Loop[current_w07] = DictSet(@, "G69", ElementOr(elements, 1))]
    /\ UNCHANGED <<current_section, current_w07, current_n1>>
    /\ NextSegment

\* Mutant: the summary is replaced by the new record instead of updated.
WalkSummary_Replace ==
    /\ pc = "walk"
    /\ elements[1] \in {<<"W13">>, <<"W14">>}
    /\ current_section' = "summary"
    /\ json_structure' =
          [json_structure EXCEPT
              !.summary = DictSet(EmptyDict, elements[1][1], SummaryRecord(elements))]
    /\ UNCHANGED <<current_w07, current_n1>>
    /\ NextSegment

\* Lines 332-336
WalkSummary ==
    /\ pc = "walk"
    /\ elements[1] \in {<<"W13">>, <<"W14">>}
    /\ current_section' = "summary"
    /\ json_structure' =
          [json_structure EXCEPT
              !.summary = DictSet(@, elements[1][1], SummaryRecord(elements))]
    /\ UNCHANGED <<current_w07, current_n1>>
    /\ NextSegment

\* Mutant: a segment that no branch matches closes the open loops.
WalkIgnored_ClosesLoops ==
    /\ pc = "walk"
    /\ ~IsST944
    /\ ~G69Applies
    /\ elements[1] \notin {<<"W17">>, <<"N1">>, <<"N9">>, <<"W07">>, <<"W13">>, <<"W14">>}
    /\ current_w07' = 0
    /\ current_n1' = 0
    /\ UNCHANGED <<json_structure, current_section>>
    /\ NextSegment

\* No branch of the elif chain matches: the loop body does nothing.
WalkIgnored ==
    /\ pc = "walk"
    /\ ~IsST944
    /\ ~G69Applies
    /\ elements[1] \notin {<<"W17">>, <<"N1">>, <<"N9">>, <<"W07">>, <<"W13">>, <<"W14">>}
    /\ UNCHANGED <<json_structure, current_section, current_w07, current_n1>>
    /\ NextSegment

(***************************************************************************)
(* The repair pass (lines 338-428)                                         *)
(***************************************************************************)
\* s.startswith(prefixes) for a tuple of prefixes
StartsWithAny(s, prefixes) == \E p \in prefixes : startswith(s, p)

\* Index of the first segment that starts with one of the prefixes, 0 if
\* there is none: next((s for s in segs if s.startswith(...)), None)
FirstWithPrefix(segs, prefixes) ==
    IF \E k \in 1..Len(segs) : StartsWithAny(segs[k], prefixes)
    THEN CHOOSE k \in 1..Len(segs) :
             /\ StartsWithAny(segs[k], prefixes)
             /\ \A j \in 1..(k - 1) : ~StartsWithAny(segs[j], prefixes)
    ELSE 0

\* segs.index(x): the index of the first segment equal to x
IndexOf(segs, x) ==
    CHOOSE k \in 1..Len(segs) : segs[k] = x /\ \A j \in 1..(k - 1) : segs[j] # x

\* tag in [s.split("*")[0] for s in segs if "*" in s]
HasTag(segs, tag) ==
    \E k \in 1..Len(segs) : contains(segs[k], "*") /\ segment_type(segs[k]) = <<tag>>

W17Prefix == {<<"W17", "*">>}
N1Prefix == {<<"N1", "*">>}
W07Prefix == {<<"W07", "*">>}
G69Prefix == {<<"G69", "*">>}
SummaryPrefixes == {<<"W13", "*">>, <<"W14", "*">>}

IsN9(s) == startswith(s, <<"N9", "*">>)
IsW07(s) == startswith(s, <<"W07", "*">>)

\* [N9Entry of every N9 segment of segs], in order (lines 368-375, 409-416)
N9Entries(segs) ==
    LET n9s == SelectSeq(segs, IsN9)
    IN  [k \in 1..Len(n9s) |-> N9Entry(split(n9s[k], "*"))]

\* Mutant: the backfill runs whenever a W17 segment exists.
W17BackfillCondition_TagOnly(doc, segs) == HasTag(segs, "W17")

\* Line 339
W17BackfillCondition(doc, segs) == DOMAIN doc.header = {} /\ HasTag(segs, "W17")

\* Lines 339-352
W17Backfilled(doc, segs) ==
    IF W17BackfillCondition(doc, segs) /\ FirstWithPrefix(segs, W17Prefix) # 0
    THEN [doc EXCEPT !.header =
             DictSet(@, "W17", W17Record(split(segs[FirstWithPrefix(segs, W17Prefix)], "*")))]
    ELSE doc

\* Mutant: the backfill runs whenever an N1 segment exists.
N1LoopBackfillCondition_TagOnly(doc, segs) == HasTag(segs, "N1")

\* Line 355
N1LoopBackfillCondition(doc, segs) ==
    "N1Loop" \notin DOMAIN doc.header /\ HasTag(segs, "N1")

\* Lines 355-375
N1LoopBackfilled(doc, segs) ==
    IF N1LoopBackfillCondition(doc, segs) /\ FirstWithPrefix(segs, N1Prefix) # 0
    THEN LET entry == N1Entry(split(segs[FirstWithPrefix(segs, N1Prefix)], "*"))
         IN  [doc EXCEPT !.header =
                 DictSet(@, "N1Loop", <<[entry EXCEPT !.N9 = N9Entries(segs)]>>)]
    ELSE doc

\* Lines 383-416: the entry built for one W07 segment
W07Item(w07_segment, segs) ==
    LET w07_index == IndexOf(segs, w07_segment) \* 1-based
        next_segments == SubSeq(segs, w07_index + 1, Len(segs))
        g69 == FirstWithPrefix(next_segments, G69Prefix)
        next_w07 == FirstWithPrefix(next_segments, W07Prefix)
        next_w07_index == IF next_w07 = 0 THEN Len(next_segments) ELSE next_w07 - 1
        w07_related_segments == SubSeq(next_segments, 1, next_w07_index)
        item == [W07Entry(split(w07_segment, "*")) EXCEPT
                    !.N9 = N9Entries(w07_related_segments)]
    IN  IF g69 # 0
        THEN DictSet(item, "G69", ElementOr(split(next_segments[g69], "*"), 1))
        ELSE item

\* Mutant: the backfill runs whenever a W07 segment exists.
W07LoopBackfillCondition_TagOnly(doc, segs) == HasTag(segs, "W07")

\* Line 378
W07LoopBackfillCondition(doc, segs) ==
    doc.detail.W07Loop = <<>> /\ HasTag(segs, "W07")

\* Lines 378-418
W07LoopBackfilled(doc, segs) ==
    IF W07LoopBackfillCondition(doc, segs)
    THEN LET w07_segments == SelectSeq(segs, IsW07)
         IN  [doc EXCEPT !.detail.W07Loop =
                 @ \o [k \in 1..Len(w07_segments) |-> W07Item(w07_segments[k], segs)]]
    ELSE doc

\* Mutant: the backfill runs whenever a W13 or W14 segment exists.
SummaryBackfillCondition_TagOnly(doc, segs) ==
    \E k \in 1..Len(segs) : contains(segs[k], "*") /\ StartsWithAny(segs[k], SummaryPrefixes)

\* Line 421
SummaryBackfillCondition(doc, segs) ==
    /\ DOMAIN doc.summary = {}
    /\ \E k \in 1..Len(segs) : contains(segs[k], "*") /\ StartsWithAny(segs[k], SummaryPrefixes)

\* Lines 421-428
SummaryBackfilled(doc, segs) ==
    IF SummaryBackfillCondition(doc, segs) /\ FirstWithPrefix(segs, SummaryPrefixes) # 0
    THEN LET summary_segment == segs[FirstWithPrefix(segs, SummaryPrefixes)]
         IN  [doc EXCEPT !.summary =
                 DictSet(@, segment_type(summary_segment)[1],
                         SummaryRecord(split(summary_segment, "*")))]
    ELSE doc

RepairFrame ==
    UNCHANGED <<edi_data, segments, pos, current_section, current_w07,
                current_n1, walk_result, calls, returned, callerVars>>

W17Backfill ==
    /\ pc = "w17_backfill"
    /\ json_structure' = W17Backfilled(json_structure, segments)
    /\ pc' = "n1loop_backfill"
    /\ RepairFrame

N1LoopBackfill ==
    /\ pc = "n1loop_backfill"
    /\ json_structure' = N1LoopBackfilled(json_structure, segments)
    /\ pc' = "w07loop_backfill"
    /\ RepairFrame

W07LoopBackfill ==
    /\ pc = "w07loop_backfill"
    /\ json_structure' = W07LoopBackfilled(json_structure, segments)
    /\ pc' = "summary_backfill"
    /\ RepairFrame

\* Lines 421-430: the last backfill and the return
SummaryBackfill ==
    /\ pc = "summary_backfill"
    /\ json_structure' = SummaryBackfilled(json_structure, segments)
    /\ pc' = "done"
    /\ RepairFrame

Next ==
    \/ Start
    \/ WalkST
    \/ WalkW17
    \/ WalkN1
    \/ WalkN9
    \/ WalkW07
    \/ WalkG69
    \/ WalkSummary
    \/ WalkIgnored
    \/ W17Backfill
    \/ N1LoopBackfill
    \/ W07LoopBackfill
    \/ SummaryBackfill

Spec == Init /\ [][Next]_vars

(***************************************************************************)
(* A series of calls.  _direct_parser reads and writes no attribute of the *)
(* parser object and no global: all a call finds of an earlier one is what *)
(* is left in the variables of the model, which the new call assigns anew  *)
(* (lines 222-241) before it reads them.                                   *)
(***************************************************************************)
\* The call returns its document (line 233 or 430) and the method is called
\* again, with any input.
NextCall ==
    /\ pc = "done"
    /\ calls < MaxCalls
    /\ returned' = returned \cup {<<edi_data, json_structure>>}
    /\ calls' = calls + 1
    /\ edi_data' \in InputsFrom(CallPieces, MaxCallSegs)
    /\ pc' = "start"
    /\ UNCHANGED <<segments, pos, json_structure, current_section, current_w07,
                   current_n1, walk_result, callerVars>>

CallsInit ==
    /\ edi_data \in InputsFrom(CallPieces, MaxCallSegs)
    /\ pc = "start"
    /\ segments = <<>>
    /\ pos = 1
    /\ json_structure = EmptyDict
    /\ current_section = "none"
    /\ current_w07 = 0
    /\ current_n1 = 0
    /\ walk_result = EmptyDict
    /\ calls = 1
    /\ returned = {}
    /\ NoCaller

CallsNext == Next \/ NextCall

CallsSpec == CallsInit /\ [][CallsNext]_vars

\* The same call on the tokenizer's inputs.
TokInit ==
    /\ \E m \in 0..MaxTokSegs : \E ps \in [1..m -> TokPieces] : edi_data = Join(ps)
    /\ pc = "start"
    /\ segments = <<>>
    /\ pos = 1
    /\ json_structure = EmptyDict
    /\ current_section = "none"
    /\ current_w07 = 0
    /\ current_n1 = 0
    /\ walk_result = EmptyDict
    /\ calls = 1
    /\ returned = {}
    /\ NoCaller

TokSpec == TokInit /\ [][Next]_vars

\* The call is sequential code: a step that can be taken is taken.
TokLiveSpec == TokSpec /\ WF_vars(Next)

(***************************************************************************)
(* EDIParser.parse (lines 133-179) and its helpers                         *)
(*                                                                         *)
(* A JSON object is a dict, as above.  Any other JSON value is a record    *)
(* with the field json_type ("list", "number", "string"), a key no object  *)
(* of the model has; a string value carries its text.                      *)
(***************************************************************************)
\* Lines 181-194: newlines removed, runs of blanks collapsed to one blank,
\* the ends stripped, a final `~` ensured.
clean_edi_data(s) ==
    IF s = <<>> THEN <<>>
    ELSE LET joined == SelectSeq(s, LAMBDA a : a # "\n")
             at == SelectSeq([k \in 1..Len(joined) |-> k],
                             LAMBDA k : ~(joined[k] = " " /\ k > 1 /\ joined[k - 1] = " "))
             cleaned == strip([k \in 1..Len(at) |-> joined[at[k]]])
         IN  IF cleaned # <<>> /\ cleaned[Len(cleaned)] = "~"
             THEN cleaned
             ELSE cleaned \o <<"~">>

\* isinstance(v, dict)
IsDict(v) == "json_type" \notin DOMAIN v

\* `key in container` raises TypeError: the container is not iterable
InRaises(container) == ~IsDict(container) /\ container.json_type = "number"

\* `key in container` for a dict (a key), a string (a substring) or a list
In(key, container) ==
    IF IsDict(container) THEN key \in DOMAIN container
    ELSE container.json_type = "string" /\ contains(container.text, key)

\* Mutant: the summary is not required.
required_keys_NoSummary == {"transactionSet", "header", "detail"}

required_keys == {"transactionSet", "header", "detail", "summary"}

\* _validate_result raises (lines 207, 211)
validate_raises(result) ==
    /\ IsDict(result)
    /\ required_keys \subseteq DOMAIN result
    /\ \/ InRaises(result.header)
       \/ In("W17", result.header) /\ InRaises(result.detail)

\* Mutant: every JSON object passes.
validate_result_AnyObject(result) == IsDict(result)

\* Lines 196-214, when it does not raise
validate_result(result) ==
    /\ IsDict(result)
    /\ required_keys \subseteq DOMAIN result
    /\ In("W17", result.header)
    /\ In("W07Loop", result.detail)

\* JSON values an LLM answer may hold.
LLMHeader == [ W17 |-> [ receiptType |-> <<"F">> ] ]

LLMDetail == [ W07Loop |-> <<>> ]

LLMDocument ==
    [ transactionSet |-> <<"944">>, header |-> LLMHeader,
      detail |-> LLMDetail, summary |-> EmptyDict ]

LLMObjects ==
    { LLMDocument,
      [ transactionSet |-> <<"944">>, header |-> LLMHeader, detail |-> LLMDetail ],
      [ header |-> LLMHeader, detail |-> LLMDetail, summary |-> EmptyDict ],
      [ LLMDocument EXCEPT !.header = EmptyDict ],
      [ LLMDocument EXCEPT !.detail = EmptyDict ],
      [ LLMDocument EXCEPT !.header = [ json_type |-> "number" ] ],
      [ LLMDocument EXCEPT !.detail = [ json_type |-> "number" ] ],
      [ LLMDocument EXCEPT !.header = [ json_type |-> "string", text |-> <<"W17">> ],
                           !.detail = [ json_type |-> "string", text |-> <<"W07Loop">> ] ],
      EmptyDict }

LLMValues == LLMObjects \cup { [ json_type |-> "list" ] }

\* What re.search and json.loads make of a part of the answer: no match, a
\* match that is not JSON, or a match that is the JSON value.
NoMatch == [ found |-> "no" ]

Unparsable == [ found |-> "unparsable" ]

Parsed(v) == [ found |-> "json", value |-> v ]

\* What chain.invoke does (line 146): it raises, or it returns a text, of
\* which the model keeps what the two searches (lines 155, 163) find.  A
\* fenced block holding an object contains braces, so the second search
\* matches too (from the first `{` to the last `}` of the whole text).
LLMOutcomes ==
    { [ raises |-> TRUE ] } \cup
    { [ raises |-> FALSE, fenced |-> f, braces |-> b ] :
        <<f, b>> \in { fb \in ({NoMatch, Unparsable} \cup { Parsed(v) : v \in LLMValues })
                              \X ({NoMatch, Unparsable} \cup { Parsed(v) : v \in LLMObjects }) :
                         (fb[1].found = "json" /\ IsDict(fb[1].value)) => fb[2].found # "no" } }

\* Lines 156-160: the fenced block is parsed, validated and returned
FencedAccepted(o) ==
    /\ o.fenced.found = "json"
    /\ ~validate_raises(o.fenced.value)
    /\ validate_result(o.fenced.value)

\* Lines 158-159 raise: control goes to the handler of line 176
FencedRaises(o) ==
    \/ o.fenced.found = "unparsable"
    \/ o.fenced.found = "json" /\ validate_raises(o.fenced.value)

\* Lines 163-170: the braces are parsed, validated and returned; whatever
\* is raised there is swallowed by the handler of line 169
BracesAccepted(o) ==
    /\ o.braces.found = "json"
    /\ ~validate_raises(o.braces.value)
    /\ validate_result(o.braces.value)

\* Mutant: what the second search finds is returned without validation.
LLMAccepted_BracesUnvalidated(o) ==
    /\ ~o.raises
    /\ FencedAccepted(o) \/ (~FencedRaises(o) /\ o.braces.found = "json")

\* parse returns a value of the LLM answer (line 160 or 168)
LLMAccepted(o) ==
    /\ ~o.raises
    /\ FencedAccepted(o) \/ (~FencedRaises(o) /\ BracesAccepted(o))

LLMValue(o) == IF FencedAccepted(o) THEN o.fenced.value ELSE o.braces.value

\* self._direct_parser(cleaned_edi) is called
CallDirectParser(arg) ==
    /\ edi_data' = arg
    /\ pc' = "start"
    /\ calls' = calls + 1
    /\ UNCHANGED <<segments, pos, json_structure, current_section, current_w07,
                   current_n1, walk_result, returned>>

DirectParserIdle ==
    UNCHANGED <<edi_data, pc, segments, pos, json_structure, current_section,
                current_w07, current_n1, walk_result, calls, returned>>

\* Mutant: the chain is invoked whether or not there is a credential.
ParseStart_AlwaysInvoke ==
    /\ parse_pc = "start"
    /\ cleaned_edi' = clean_edi_data(parse_edi_data)
    /\ DirectParserIdle
    /\ parse_pc' = "invoke"
    /\ UNCHANGED <<api_key, parse_edi_data, output, parse_result, chain_invocations>>
    /\ UNCHANGED <<procVars, ftpVars>>

\* Lines 138-142: clean the input; without a credential go to the direct
\* parser
ParseStart ==
    /\ parse_pc = "start"
    /\ cleaned_edi' = clean_edi_data(parse_edi_data)
    /\ IF api_key = ""
       THEN /\ CallDirectParser(cleaned_edi')
            /\ parse_pc' = "direct"
       ELSE /\ DirectParserIdle
            /\ parse_pc' = "invoke"
    /\ UNCHANGED <<api_key, parse_edi_data, output, parse_result, chain_invocations>>
    /\ UNCHANGED <<procVars, ftpVars>>

\* Lines 144-179: invoke the chain, search its answer for JSON, return the
\* value that validates or go to the direct parser
ParseInvoke ==
    /\ parse_pc = "invoke"
    /\ chain_invocations' = chain_invocations + 1
    /\ \E o \in LLMOutcomes :
          /\ output' = o
          /\ IF LLMAccepted(o)
             THEN /\ parse_result' = LLMValue(o)
                  /\ parse_pc' = "returned"
                  /\ DirectParserIdle
             ELSE /\ parse_result' = parse_result
                  /\ parse_pc' = "direct"
                  /\ CallDirectParser(cleaned_edi)
    /\ UNCHANGED <<api_key, parse_edi_data, cleaned_edi>>
    /\ UNCHANGED <<procVars, ftpVars>>

\* Lines 142, 174, 179: the direct parser's document is returned
ParseReturnDirect ==
    /\ parse_pc = "direct"
    /\ pc = "done"
    /\ parse_result' = json_structure
    /\ parse_pc' = "returned"
    /\ DirectParserIdle
    /\ UNCHANGED <<api_key, parse_edi_data, cleaned_edi, output, chain_invocations>>
    /\ UNCHANGED <<procVars, ftpVars>>

ParseInit ==
    /\ NoProcess
    /\ NoTransfer
    /\ parse_edi_data \in InputsFrom(ParsePieces, MaxParseSegs)
    /\ api_key \in {"", "sk"}
    /\ parse_pc = "start"
    /\ cleaned_edi = <<>>
    /\ output = EmptyDict
    /\ parse_result = EmptyDict
    /\ chain_invocations = 0
    /\ edi_data = <<>>
    /\ pc = "idle"
    /\ segments = <<>>
    /\ pos = 1
    /\ json_structure = EmptyDict
    /\ current_section = "none"
    /\ current_w07 = 0
    /\ current_n1 = 0
    /\ walk_result = EmptyDict
    /\ calls = 0
    /\ returned = {}

ParseNext == Next \/ ParseStart \/ ParseInvoke \/ ParseReturnDirect

ParseSpec == ParseInit /\ [][ParseNext]_vars

\* parse is sequential code: a step that can be taken is taken.
ParseLiveSpec == ParseSpec /\ WF_vars(ParseNext)

(***************************************************************************)
(* process_edi_data (src/app.py, lines 93-162)                             *)
(***************************************************************************)
None == [ json_type |-> "null" ]

\* p in text, for a text and a pattern made of whole atoms
occurs(text, p) ==
    \E k \in 1..(Len(text) - Len(p) + 1) : SubSeq(text, k, k + Len(p) - 1) = p

\* Line 109
LacksDelimiters(text) == ~contains(text, "~") \/ ~contains(text, "*")

\* Lines 113-114
required_segments == {"W17", "N1"}

missing_segments(text) == {seg \in required_segments : ~occurs(text, <<seg, "*">>)}

\* `not result` for a JSON value
Falsy(v) == IsDict(v) /\ DOMAIN v = {}

ProcOnly ==
    /\ DirectParserIdle
    /\ UNCHANGED parseVars

\* Lines 104-118: strip the input and check that it looks like EDI data.
\* strip() on a value that is not a string raises: control goes to the
\* handler of line 151.
ProcGate ==
    /\ proc_pc = "start"
    /\ IF input_type # "str"
       THEN /\ faults' = faults + 1
            /\ proc_pc' = "fallback"
            /\ UNCHANGED <<cleaned_edi_data, proc_result, gate_passed>>
       ELSE /\ cleaned_edi_data' = strip(proc_edi_data)
            /\ faults' = faults
            /\ IF LacksDelimiters(cleaned_edi_data')
               THEN /\ proc_result' = <<FALSE, None, "Invalid EDI data format">>
                    /\ proc_pc' = "returned"
                    /\ gate_passed' = FALSE
               ELSE IF missing_segments(cleaned_edi_data') # {}
               THEN /\ proc_result' = <<FALSE, None, "EDI data is missing required segments">>
                    /\ proc_pc' = "returned"
                    /\ gate_passed' = FALSE
               ELSE /\ proc_result' = proc_result
                    /\ proc_pc' = "construct"
                    /\ gate_passed' = TRUE
    /\ UNCHANGED <<proc_edi_data, input_type, use_direct_parser, ftpVars>>
    /\ ProcOnly

\* Lines 121-135: build the parser (with a credential the constructor
\* builds the LLM chain, which may raise), then call the direct parser or
\* parse.
ProcConstruct ==
    /\ proc_pc = "construct"
    /\ \E raises \in (IF api_key = "" THEN {FALSE} ELSE BOOLEAN) :
          IF raises
          THEN /\ faults' = faults + 1
               /\ proc_pc' = "fallback"
               /\ ProcOnly
          ELSE /\ faults' = faults
               /\ IF use_direct_parser \/ api_key = ""
                  THEN /\ CallDirectParser(cleaned_edi_data)
                       /\ proc_pc' = "direct"
                       /\ UNCHANGED parseVars
                  ELSE /\ parse_pc' = "start"
                       /\ parse_edi_data' = cleaned_edi_data
                       /\ proc_pc' = "parse"
                       /\ DirectParserIdle
                       /\ UNCHANGED <<api_key, cleaned_edi, output, parse_result,
                                      chain_invocations>>
    /\ UNCHANGED <<proc_edi_data, input_type, use_direct_parser, cleaned_edi_data,
                   proc_result, gate_passed, ftpVars>>

\* Lines 127-130
ProcReturnDirect ==
    /\ proc_pc = "direct"
    /\ pc = "done"
    /\ proc_result' = <<TRUE, json_structure, "EDI data processed with direct parser">>
    /\ proc_pc' = "returned"
    /\ UNCHANGED <<proc_edi_data, input_type, use_direct_parser, cleaned_edi_data,
                   gate_passed, faults, ftpVars>>
    /\ ProcOnly

\* Lines 135-149: parse has returned; its result is checked and returned
ProcCheckParse ==
    /\ proc_pc = "parse"
    /\ parse_pc = "returned"
    /\ proc_result' =
          IF Falsy(parse_result) \/ ~IsDict(parse_result)
          THEN <<FALSE, None, "EDI parser returned invalid result">>
          ELSE IF ~({"header", "detail", "summary"} \subseteq DOMAIN parse_result)
          THEN <<FALSE, None, "Parsed result is missing required sections">>
          ELSE <<TRUE, parse_result, "EDI data processed successfully">>
    /\ proc_pc' = "returned"
    /\ UNCHANGED <<proc_edi_data, input_type, use_direct_parser, cleaned_edi_data,
                   gate_passed, faults, ftpVars>>
    /\ ProcOnly

\* Lines 151-162: the handler calls the direct parser on the raw input.
\* None is falsy like "", so the parser returns the skeleton for it; on an
\* int the parser raises at line 236 and the failure is returned.
ProcFallback ==
    /\ proc_pc = "fallback"
    /\ IF input_type = "int"
       THEN /\ proc_result' = <<FALSE, None, "Fallback parser also failed">>
            /\ proc_pc' = "returned"
            /\ DirectParserIdle
       ELSE /\ CallDirectParser(IF input_type = "str" THEN proc_edi_data ELSE <<>>)
            /\ proc_pc' = "fallback_direct"
            /\ proc_result' = proc_result
    /\ UNCHANGED <<proc_edi_data, input_type, use_direct_parser, cleaned_edi_data,
                   gate_passed, faults, ftpVars>>
    /\ UNCHANGED parseVars

\* Line 159
ProcReturnFallback ==
    /\ proc_pc = "fallback_direct"
    /\ pc = "done"
    /\ proc_result' = <<TRUE, json_structure, "EDI data processed with fallback direct parser">>
    /\ proc_pc' = "returned"
    /\ UNCHANGED <<proc_edi_data, input_type, use_direct_parser, cleaned_edi_data,
                   gate_passed, faults, ftpVars>>
    /\ ProcOnly

ProcInit ==
    /\ \/ input_type = "str" /\ proc_edi_data \in InputsFrom(ProcPieces, MaxProcSegs)
       \/ input_type \in {"NoneType", "int"} /\ proc_edi_data = <<>>
    /\ use_direct_parser \in BOOLEAN
    /\ api_key \in {"", "sk"}
    /\ proc_pc = "start"
    /\ cleaned_edi_data = <<>>
    /\ proc_result = <<>>
    /\ gate_passed = FALSE
    /\ faults = 0
    /\ parse_pc = "idle"
    /\ parse_edi_data = <<>>
    /\ cleaned_edi = <<>>
    /\ output = EmptyDict
    /\ parse_result = EmptyDict
    /\ chain_invocations = 0
    /\ edi_data = <<>>
    /\ pc = "idle"
    /\ segments = <<>>
    /\ pos = 1
    /\ json_structure = EmptyDict
    /\ current_section = "none"
    /\ current_w07 = 0
    /\ current_n1 = 0
    /\ walk_result = EmptyDict
    /\ calls = 0
    /\ returned = {}
    /\ NoTransfer

ProcNext ==
    \/ ParseNext
    \/ ProcGate
    \/ ProcConstruct
    \/ ProcReturnDirect
    \/ ProcCheckParse
    \/ ProcFallback
    \/ ProcReturnFallback

\* The application: a call of process_edi_data, or a call of parse.
AppInit == ProcInit \/ ParseInit

AppSpec == AppInit /\ [][ProcNext]_vars

(***************************************************************************)
(* The two ways to the direct parser without a credential, on one input:   *)
(* process_edi_data takes its direct path (lines 124-130), and the input   *)
(* is then given to EDIParser.parse of a parser built with an empty key    *)
(* (lines 138-142).                                                        *)
(***************************************************************************)
\* Segments of every kind, with a newline in front of a segment and with
\* blanks inside one.
EquivPieces ==
    { <<"ST", "*", "944">>,
      <<"W17", "*", "G", "*", "D2">>,
      <<"N1", "*", "SF">>,
      <<"\n", "N1", "*", "WH">>,
      <<"N9", "*", "CL", " ", " ", "X">>,
      <<"W07", "*", "6000">>,
      <<"\n", "W07", "*", "1">>,
      <<"G69", "*", "DESC">>,
      <<"W13", "*", "10">> }

EquivInit ==
    /\ input_type = "str"
    /\ proc_edi_data \in InputsFrom(EquivPieces, MaxEquivSegs)
    /\ use_direct_parser \in BOOLEAN
    /\ api_key = ""
    /\ proc_pc = "start"
    /\ cleaned_edi_data = <<>>
    /\ proc_result = <<>>
    /\ gate_passed = FALSE
    /\ faults = 0
    /\ parse_pc = "idle"
    /\ parse_edi_data = <<>>
    /\ cleaned_edi = <<>>
    /\ output = EmptyDict
    /\ parse_result = EmptyDict
    /\ chain_invocations = 0
    /\ edi_data = <<>>
    /\ pc = "idle"
    /\ segments = <<>>
    /\ pos = 1
    /\ json_structure = EmptyDict
    /\ current_section = "none"
    /\ current_w07 = 0
    /\ current_n1 = 0
    /\ walk_result = EmptyDict
    /\ calls = 0
    /\ returned = {}
    /\ NoTransfer

\* process_edi_data has returned a document: parse is called on the same
\* input.
ThenParse ==
    /\ proc_pc = "returned"
    /\ gate_passed
    /\ parse_pc = "idle"
    /\ parse_pc' = "start"
    /\ parse_edi_data' = proc_edi_data
    /\ DirectParserIdle
    /\ UNCHANGED <<api_key, cleaned_edi, output, parse_result, chain_invocations>>
    /\ UNCHANGED <<procVars, ftpVars>>

EquivNext ==
    \/ Next
    \/ ProcGate
    \/ ProcConstruct
    \/ ProcReturnDirect
    \/ ThenParse
    \/ ParseStart
    \/ ParseReturnDirect

EquivSpec == EquivInit /\ [][EquivNext]_vars

(***************************************************************************)
(* FTPTransfer.transfer (ftp_transfer.py)                                  *)
(*                                                                         *)
(* A message is the tuple of its fixed parts; the text of the exception    *)
(* that a message quotes is left out.  A remote file name is the pair      *)
(* <<filename, file_format>> for f"{filename}.{file_format}".              *)
(***************************************************************************)
filename == "out"

RemoteFilename == <<filename, file_format>>

IsStr(v) == ~IsDict(v) /\ v.json_type = "string"

\* json.dumps raises TypeError on a value that JSON cannot represent
Unserializable(v) == ~IsDict(v) /\ v.json_type = "set"

\* Lines 45-54: the bytes written to the temporary file
Serialized(d, format) ==
    IF IsStr(d)
    THEN [raises |-> FALSE, bytes |-> <<"encode", d.text>>]
    ELSE IF format = "json"
    THEN IF Unserializable(d)
         THEN [raises |-> TRUE]
         ELSE [raises |-> FALSE, bytes |-> <<"json.dumps", d>>]
    ELSE [raises |-> FALSE, bytes |-> <<"str", d>>]

\* self.config.get(key, False), as a condition
Flag(key) == key \in DOMAIN config /\ config[key]

\* Mutant: use_ftps is looked at before use_sftp.
ChosenTransport_FtpsFirst ==
    IF Flag("use_ftps") THEN "ftps"
    ELSE IF Flag("use_sftp") THEN "sftp"
    ELSE "ftp"

\* Lines 60-65
ChosenTransport ==
    IF Flag("use_sftp") THEN "sftp"
    ELSE IF Flag("use_ftps") THEN "ftps"
    ELSE "ftp"

\* Lines 71-73
TransferFailed == <<FALSE, <<"Transfer failed">>>>

\* The parsers are not involved in a transfer.
FtpOnly ==
    UNCHANGED <<edi_data, pc, segments, pos, json_structure, current_section,
                current_w07, current_n1, walk_result, calls, returned,
                parseVars, procVars>>

\* Lines 43-57: create the temporary file and write the data to it.  Creating
\* or writing the file may fail in the operating system, and json.dumps
\* raises on data it cannot represent, the file having been created.
TransferWriteTemp ==
    /\ ftp_pc = "start"
    /\ \E os_error \in BOOLEAN :
          LET s == Serialized(data, file_format) IN
          IF os_error
          THEN /\ ftp_result' = TransferFailed
               /\ ftp_pc' = "returned"
               /\ UNCHANGED <<temp_file, temp_content>>
          ELSE IF s.raises
          THEN /\ ftp_result' = TransferFailed
               /\ ftp_pc' = "returned"
               /\ temp_file' = "empty"
               /\ UNCHANGED temp_content
          ELSE /\ temp_file' = "written"
               /\ temp_content' = s.bytes
               /\ ftp_pc' = "choose"
               /\ UNCHANGED ftp_result
    /\ UNCHANGED <<config, data, file_format, transports, transport_result, uploaded>>
    /\ FtpOnly

\* Lines 60-65: the call of the _transfer_* method the flags select
TransferChoose ==
    /\ ftp_pc = "choose"
    /\ ftp_pc' = ChosenTransport
    /\ transports' = Append(transports, ChosenTransport)
    /\ UNCHANGED <<config, data, file_format, temp_file, temp_content,
                   transport_result, uploaded, ftp_result>>
    /\ FtpOnly

\* Lines 75-121: _transfer_ftp.  Connecting, logging in, changing or making
\* the directory and storing the file raise one of ftp_errors or another
\* exception, or all succeed.
transfer_ftp ==
    /\ ftp_pc = "ftp"
    /\ \E fault \in {"none", "ftp_errors", "Exception"} :
          /\ transport_result' =
                CASE fault = "none" ->
                       <<TRUE, <<"Successfully transferred", RemoteFilename, "via FTP">>>>
                  [] fault = "ftp_errors" -> <<FALSE, <<"FTP error">>>>
                  [] fault = "Exception" -> <<FALSE, <<"Error in FTP transfer">>>>
          /\ uploaded' = IF fault = "none"
                         THEN uploaded \cup {<<"ftp", RemoteFilename, temp_content>>}
                         ELSE uploaded
    /\ ftp_pc' = "cleanup"
    /\ UNCHANGED <<config, data, file_format, temp_file, temp_content,
                   transports, ftp_result>>
    /\ FtpOnly

\* Lines 123-172: _transfer_ftps
transfer_ftps ==
    /\ ftp_pc = "ftps"
    /\ \E fault \in {"none", "ftp_errors", "Exception"} :
          /\ transport_result' =
                CASE fault = "none" ->
                       <<TRUE, <<"Successfully transferred", RemoteFilename, "via FTPS">>>>
                  [] fault = "ftp_errors" -> <<FALSE, <<"FTPS error">>>>
                  [] fault = "Exception" -> <<FALSE, <<"Error in FTPS transfer">>>>
          /\ uploaded' = IF fault = "none"
                         THEN uploaded \cup {<<"ftps", RemoteFilename, temp_content>>}
                         ELSE uploaded
    /\ ftp_pc' = "cleanup"
    /\ UNCHANGED <<config, data, file_format, temp_file, temp_content,
                   transports, ftp_result>>
    /\ FtpOnly

\* Lines 174-227: _transfer_sftp.  The body fails before the transport object
\* exists ("connect"), later ("later"), or not at all.  The finally block
\* closes what was opened; a close that raises replaces the return, and the
\* exception is caught in transfer (line 71) with the temporary file left.
transfer_sftp ==
    /\ ftp_pc = "sftp"
    /\ \E fault \in {"none", "connect", "later"} :
       \E close_raises \in (IF fault = "connect" THEN {FALSE} ELSE BOOLEAN) :
          /\ uploaded' = IF fault = "none"
                         THEN uploaded \cup {<<"sftp", RemoteFilename, temp_content>>}
                         ELSE uploaded
          /\ IF close_raises
             THEN /\ ftp_result' = TransferFailed
                  /\ ftp_pc' = "returned"
                  /\ UNCHANGED transport_result
             ELSE /\ transport_result' =
                        IF fault = "none"
                        THEN <<TRUE, <<"Successfully transferred", RemoteFilename, "via SFTP">>>>
                        ELSE <<FALSE, <<"SFTP error">>>>
                  /\ ftp_pc' = "cleanup"
                  /\ UNCHANGED ftp_result
    /\ UNCHANGED <<config, data, file_format, temp_file, temp_content, transports>>
    /\ FtpOnly

\* Lines 68-73: remove the temporary file and return what the transport
\* returned; os.unlink may raise.
TransferCleanup ==
    /\ ftp_pc = "cleanup"
    /\ \E os_error \in BOOLEAN :
          IF os_error
          THEN /\ ftp_result' = TransferFailed
               /\ UNCHANGED temp_file
          ELSE /\ ftp_result' = transport_result
               /\ temp_file' = "removed"
    /\ ftp_pc' = "returned"
    /\ UNCHANGED <<config, data, file_format, temp_content, transports,
                   transport_result, uploaded>>
    /\ FtpOnly

\* The flags a configuration may carry: each of use_sftp and use_ftps is
\* absent, False or True.
Configs == UNION {[keys -> BOOLEAN] : keys \in SUBSET {"use_sftp", "use_ftps"}}

\* The data handed to transfer: a string, dicts, a number, a set.
TransferData ==
    { [json_type |-> "string", text |-> <<"{}">>],
      EmptyDict,
      Skeleton,
      [json_type |-> "number"],
      [json_type |-> "set"] }

FtpInit ==
    /\ ftp_pc = "start"
    /\ config \in Configs
    /\ data \in TransferData
    /\ file_format \in {"json", "xml"}
    /\ temp_file = "none"
    /\ temp_content = <<>>
    /\ transports = <<>>
    /\ transport_result = <<>>
    /\ uploaded = {}
    /\ ftp_result = <<>>
    /\ NoProcess
    /\ api_key = ""
    /\ parse_pc = "idle"
    /\ parse_edi_data = <<>>
    /\ cleaned_edi = <<>>
    /\ output = EmptyDict
    /\ parse_result = EmptyDict
    /\ chain_invocations = 0
    /\ edi_data = <<>>
    /\ pc = "idle"
    /\ segments = <<>>
    /\ pos = 1
    /\ json_structure = EmptyDict
    /\ current_section = "none"
    /\ current_w07 = 0
    /\ current_n1 = 0
    /\ walk_result = EmptyDict
    /\ calls = 0
    /\ returned = {}

FtpNext ==
    \/ TransferWriteTemp
    \/ TransferChoose
    \/ transfer_ftp
    \/ transfer_ftps
    \/ transfer_sftp
    \/ TransferCleanup

FtpSpec == FtpInit /\ [][FtpNext]_vars

\* Every step of transfer is taken in the end: nothing in it waits.
FtpLiveSpec == FtpSpec /\ WF_vars(FtpNext)

(***************************************************************************)
(* The W07Loop backfill block (lines 377-418) as the function of the       *)
(* segment list that its code is: the block is entered with a document     *)
(* whose W07Loop is empty, for every list of segments, and the summary     *)
(* backfill and the return follow it.  The main walk itself leaves         *)
(* W07Loop empty only when no segment has the tag W07.                     *)
(***************************************************************************)
\* Segments of the lists: two W07, two G69, two N9, one other.
BackfillPieces ==
    { <<"W07", "*", "6000">>,
      <<"W07", "*", "1", "*", "EA">>,
      <<"G69", "*", "DESC">>,
      <<"G69", "*", "OTHER">>,
      <<"N9", "*", "CL">>,
      <<"N9", "*", "ZZ", "*", "E1">>,
      <<"W13", "*", "10">> }

\* The lists of at most n of the given segments.
SegmentLists(pieces, n) == UNION { [1..m -> pieces] : m \in 0..n }

BackfillInit ==
    /\ segments \in SegmentLists(BackfillPieces, MaxBackfillSegs)
    /\ edi_data = Join(segments)
    /\ pc = "w07loop_backfill"
    /\ pos = Len(segments) + 1
    /\ json_structure = Skeleton
    /\ current_section = "none"
    /\ current_w07 = 0
    /\ current_n1 = 0
    /\ walk_result = Skeleton
    /\ calls = 1
    /\ returned = {}
    /\ NoCaller

BackfillNext ==
    \/ W07LoopBackfill
    \/ SummaryBackfill

BackfillSpec == BackfillInit /\ [][BackfillNext]_vars

(***************************************************************************)
(* Vocabulary of the properties                                            *)
(***************************************************************************)
Done == pc = "done"

TagOf(s) == split(s, "*")[1]

\* The segments with the given tag, in document order.
Tagged(segs, tag) == SelectSeq(segs, LAMBDA s : TagOf(s) = <<tag>>)

N1LoopOf(doc) ==
    IF "N1Loop" \in DOMAIN doc.header THEN doc.header["N1Loop"] ELSE <<>>

W07LoopOf(doc) == doc.detail.W07Loop

RECURSIVE ConcatN9(_)
ConcatN9(loop) ==
    IF loop = <<>> THEN <<>> ELSE Head(loop).N9 \o ConcatN9(Tail(loop))

\* Every N9 entry of the document.
AllN9(doc) == ConcatN9(N1LoopOf(doc)) \o ConcatN9(W07LoopOf(doc))

CountOf(seq, e) == Cardinality({k \in 1..Len(seq) : seq[k] = e})

Range(seq) == {seq[k] : k \in 1..Len(seq)}

\* The N9 entries of a list of N9 segments.
EntriesOf(n9segs) == [k \in 1..Len(n9segs) |-> N9Entry(split(n9segs[k], "*"))]

\* Each value occurs in small at most as often as in big.
SubBag(small, big) == \A e \in Range(small) : CountOf(small, e) <= CountOf(big, e)

WellFormed(doc) ==
    /\ DOMAIN doc = {"transactionSet", "header", "detail", "summary"}
    /\ "W07Loop" \in DOMAIN doc.detail
    /\ doc.detail.W07Loop \in Seq(Range(doc.detail.W07Loop))

(***************************************************************************)
(* C1: for every input the call reaches its return (it neither loops for   *)
(* ever nor stops at a statement that cannot be executed), the loop index  *)
(* and the two entry references always point inside their lists, and from  *)
(* the moment the skeleton is built the document has exactly the keys      *)
(* transactionSet, header, detail and summary, with detail holding a       *)
(* W07Loop sequence.                                                       *)
(***************************************************************************)
C1_Structure ==
    /\ pc # "start" => WellFormed(json_structure)
    /\ pc = "walk" => pos \in 1..Len(segments)
    /\ pc # "start" => /\ current_n1 \in 0..Len(N1LoopOf(json_structure))
                       /\ current_w07 \in 0..Len(W07LoopOf(json_structure))

C1_TotalAndWellFormed == []C1_Structure /\ <>Done

C1_Witness ==
    /\ Done
    /\ Len(segments) >= 3
    /\ DOMAIN json_structure.header = {"W17", "N1Loop"}
    /\ W07LoopOf(json_structure) # <<>>

(***************************************************************************)
(* More vocabulary: positions in the segment list                          *)
(***************************************************************************)
HasTagAt(k, tag) == TagOf(segments[k]) = <<tag>>

\* The indices k of segs (ascending) with keep[k].
IndicesWhere(keep) == SelectSeq([k \in 1..Len(keep) |-> k], LAMBDA k : keep[k])

\* A segment that sets current_section when the walk processes it.
SetsSection(s) ==
    LET el == split(s, "*")
    IN  \/ el[1] \in {<<"W17">>, <<"N1">>, <<"W07">>, <<"W13">>, <<"W14">>}
        \/ el[1] = <<"ST">> /\ Len(el) > 1 /\ el[2] = <<"944">>

N1Before(k) == \E j \in 1..(k - 1) : HasTagAt(j, "N1")

\* The last section-setting segment before position k is a W07.
InDetailAt(k) ==
    \E j \in 1..(k - 1) :
        /\ HasTagAt(j, "W07")
        /\ \A m \in (j + 1)..(k - 1) : ~SetsSection(segments[m])

\* The W17-tagged segments whose element count reaches the main walk's bound.
LongW17s == SelectSeq(Tagged(segments, "W17"), LAMBDA s : Len(split(s, "*")) >= 7)

(***************************************************************************)
(* C2: the main walk writes header.W17 exactly when some W17 segment has   *)
(* 7 or more elements; and whenever the main walk left header.W17 absent   *)
(* although a W17 segment exists, the returned header.W17 is the record of *)
(* the first W17 segment (missing fields ""), whatever else the document   *)
(* holds.                                                                  *)
(***************************************************************************)
C2_W17Boundary ==
    Done =>
        /\ ("W17" \in DOMAIN walk_result.header) <=> (LongW17s # <<>>)
        /\ ( /\ "W17" \notin DOMAIN walk_result.header
             /\ Tagged(segments, "W17") # <<>> )
           => /\ "W17" \in DOMAIN json_structure.header
              /\ json_structure.header["W17"] =
                     W17Record(split(Tagged(segments, "W17")[1], "*"))

(***************************************************************************)
(* C3 as claimed: if some segment is an N1 or a W07, every N9 segment has  *)
(* its entry under some N1Loop or W07Loop entry of the returned document.  *)
(***************************************************************************)
C3_NeverOrphaned ==
    (Done /\ (Tagged(segments, "N1") # <<>> \/ Tagged(segments, "W07") # <<>>))
        => SubBag(EntriesOf(Tagged(segments, "N9")), AllN9(json_structure))

\* The N9 segments that have an N1 before them or are met in detail context.
EligibleN9s ==
    LET keep == [k \in 1..Len(segments) |->
                    HasTagAt(k, "N9") /\ (N1Before(k) \/ InDetailAt(k))]
        at == IndicesWhere(keep)
    IN  [i \in 1..Len(at) |-> segments[at[i]]]

(***************************************************************************)
(* C3 as amended: every N9 segment that has an N1 segment somewhere before *)
(* it, or whose last section-setting predecessor (ST*944, W17, N1, W07,    *)
(* W13, W14) is a W07, has its entry under some N1Loop or W07Loop entry of *)
(* the returned document.                                                  *)
(***************************************************************************)
C3_AttachedWhenEligible ==
    Done => SubBag(EntriesOf(EligibleN9s), AllN9(json_structure))

\* An N9 after a summary segment, kept through the fallback to the last N1,
\* next to an N9 that is kept in its own context.
C3_Witness ==
    /\ Done
    /\ \E k \in 1..Len(segments) :
          HasTagAt(k, "N9") /\ N1Before(k) /\ k > 1 /\ HasTagAt(k - 1, "W13")
    /\ Len(EligibleN9s) >= 2
    /\ Len(AllN9(json_structure)) >= 2

(***************************************************************************)
(* C4: each N9 segment contributes at most one N9 entry to the document:   *)
(* at every point of the call, each N9 entry value occurs in the document  *)
(* (N1Loop and W07Loop together) at most as often as among the N9          *)
(* segments, so the entries never outnumber the N9 segments.               *)
(***************************************************************************)
C4_AtMostOnce ==
    pc # "start" =>
        /\ SubBag(AllN9(json_structure), EntriesOf(Tagged(segments, "N9")))
        /\ Len(AllN9(json_structure)) <= Len(Tagged(segments, "N9"))

C4_Witness ==
    /\ Done
    /\ ConcatN9(N1LoopOf(json_structure)) # <<>>
    /\ ConcatN9(W07LoopOf(json_structure)) # <<>>
    /\ Len(AllN9(json_structure)) = Len(Tagged(segments, "N9"))

(***************************************************************************)
(* W07 regions: the segments after a W07 segment up to the next W07        *)
(***************************************************************************)
W07At == IndicesWhere([k \in 1..Len(segments) |-> HasTagAt(k, "W07")])

RegionEnd(m) == IF m < Len(W07At) THEN W07At[m + 1] - 1 ELSE Len(segments)

\* The N9 segments of the m-th W07's region.
RegionN9s(m) ==
    LET keep == [k \in 1..Len(segments) |->
                    k > W07At[m] /\ k <= RegionEnd(m) /\ HasTagAt(k, "N9")]
        at == IndicesWhere(keep)
    IN  [i \in 1..Len(at) |-> segments[at[i]]]

\* Those of them that no section-setting segment separates from the W07.
RegionN9sInContext(m) ==
    LET keep == [k \in 1..Len(segments) |->
                    /\ k > W07At[m] /\ k <= RegionEnd(m) /\ HasTagAt(k, "N9")
                    /\ \A j \in (W07At[m] + 1)..(k - 1) : ~SetsSection(segments[j])]
        at == IndicesWhere(keep)
    IN  [i \in 1..Len(at) |-> segments[at[i]]]

(***************************************************************************)
(* C5 as claimed: the N9 entries of the W07Loop entry of every W07 that is *)
(* followed by another W07 are exactly the N9 segments located between the *)
(* two, whatever else lies between them.                                   *)
(***************************************************************************)
C5_BetweenGoesToPreceding ==
    Done =>
        /\ Len(W07LoopOf(json_structure)) = Len(W07At)
        /\ \A m \in 1..(Len(W07At) - 1) :
              W07LoopOf(json_structure)[m].N9 = EntriesOf(RegionN9s(m))

(***************************************************************************)
(* C5 as amended: an N9 segment located between two consecutive W07        *)
(* segments is attached to the entry of the preceding W07 exactly when no  *)
(* section-setting segment (ST*944, W17, N1, W13, W14) lies between that   *)
(* W07 and the N9, and it is never attached to the entry of the following  *)
(* W07 or of any other W07: the N9 list of every W07Loop entry is exactly  *)
(* the N9 segments of its own region met in unbroken detail context.       *)
(***************************************************************************)
C5_BetweenNeverLeaks ==
    Done =>
        /\ Len(W07LoopOf(json_structure)) = Len(W07At)
        /\ \A m \in 1..Len(W07At) :
              W07LoopOf(json_structure)[m].N9 = EntriesOf(RegionN9sInContext(m))

C5_Witness ==
    /\ Done
    /\ Len(W07At) >= 2
    /\ RegionN9s(1) # <<>>
    /\ W07LoopOf(json_structure)[1].N9 # <<>>
    /\ W07LoopOf(json_structure)[2].N9 # <<>>

(***************************************************************************)
(* C6 as claimed: the returned summary has at most one key, and when both  *)
(* a W13 and a W14 segment appear its only key is the tag seen last.       *)
(***************************************************************************)
SummarySegments ==
    SelectSeq(segments, LAMBDA s : TagOf(s) \in {<<"W13">>, <<"W14">>})

C6_OneSummaryKey ==
    Done =>
        /\ Cardinality(DOMAIN json_structure.summary) <= 1
        /\ (Tagged(segments, "W13") # <<>> /\ Tagged(segments, "W14") # <<>>)
           => DOMAIN json_structure.summary =
                  {TagOf(SummarySegments[Len(SummarySegments)])[1]}

(***************************************************************************)
(* C6 as amended: the returned summary has one key per summary tag that    *)
(* appears (W13, W14 or both), each holding the totalQuantity of the last  *)
(* segment with that tag; a W13 and a W14 do not evict each other.         *)
(***************************************************************************)
C6_OneKeyPerTag ==
    Done =>
        /\ DOMAIN json_structure.summary =
               {t \in {"W13", "W14"} : Tagged(segments, t) # <<>>}
        /\ \A t \in DOMAIN json_structure.summary :
              json_structure.summary[t] =
                  SummaryRecord(split(Tagged(segments, t)[Len(Tagged(segments, t))], "*"))

C6_Witness ==
    /\ Done
    /\ DOMAIN json_structure.summary = {"W13", "W14"}
    /\ Len(Tagged(segments, "W13")) >= 2
    /\ Tagged(segments, "W13")[1] # Tagged(segments, "W13")[2]

(***************************************************************************)
(* Vocabulary of the tokenizer properties                                  *)
(***************************************************************************)
\* The `~`-separated pieces of the stripped input, as they stand.
RawPieces(text) ==
    LET parts == split(strip(text), "~")
    IN  SelectSeq(parts, LAMBDA q : q # <<>>)

\* The `~`-separated pieces of the input, each trimmed, the empty ones dropped.
TrimmedPieces(text) ==
    LET parts == split(text, "~")
    IN  SelectSeq([k \in 1..Len(parts) |-> strip(parts[k])], LAMBDA q : q # <<>>)

LacksDelimiter(text) == ~contains(text, "~") \/ ~contains(text, "*")

WritingTags == {<<"W17">>, <<"N1">>, <<"W07">>, <<"W13">>, <<"W14">>}

EmptySkeleton ==
    [ transactionSet |-> <<"944">>,
      header         |-> <<>>,
      detail         |-> [ W07Loop |-> <<>> ],
      summary        |-> <<>> ]

(***************************************************************************)
(* C7 as claimed: for every input that contains no `~` or no `*` the       *)
(* returned document is the empty skeleton.                                *)
(***************************************************************************)
C7_NoDelimiterGivesSkeleton ==
    (Done /\ LacksDelimiter(edi_data)) => json_structure = EmptySkeleton

(***************************************************************************)
(* C7 as amended: for every input that contains no `~` or no `*` the call  *)
(* returns, and the returned document is the empty skeleton whenever none  *)
(* of the `~`-separated pieces of the stripped input has the tag W17, N1,  *)
(* W07, W13 or W14 (a bare N1, W07, W13 or W14 does write its entry).      *)
(***************************************************************************)
C7_SkeletonWithoutWritingTag ==
    ( /\ Done
      /\ LacksDelimiter(edi_data)
      /\ \A k \in 1..Len(RawPieces(edi_data)) :
            TagOf(RawPieces(edi_data)[k]) \notin WritingTags )
    => json_structure = EmptySkeleton

\* Several segments, one of them starting with whitespace, and no `*` at all.
C7_Witness ==
    /\ Done
    /\ ~contains(edi_data, "*")
    /\ Len(segments) >= 2
    /\ \E k \in 1..Len(segments) : Head(segments[k]) \in Whitespace
    /\ \A k \in 1..Len(segments) : TagOf(segments[k]) \notin WritingTags
    /\ json_structure = EmptySkeleton

(***************************************************************************)
(* C8: the parser works on the `~`-separated pieces of the input, each     *)
(* trimmed of leading and trailing whitespace: a piece with whitespace or  *)
(* a newline in front of its tag is processed like the piece without it,   *)
(* so the returned document has one N1Loop entry per trimmed piece tagged  *)
(* N1 and one W07Loop entry per trimmed piece tagged W07, with its fields. *)
(***************************************************************************)
C8_TrimmedPiecesAreParsed ==
    Done =>
        LET n1s == Tagged(TrimmedPieces(edi_data), "N1")
            w07s == Tagged(TrimmedPieces(edi_data), "W07")
        IN  /\ Len(N1LoopOf(json_structure)) = Len(n1s)
            /\ Len(W07LoopOf(json_structure)) = Len(w07s)
            /\ \A i \in 1..Len(n1s) :
                  N1LoopOf(json_structure)[i].N1 = N1Entry(split(n1s[i], "*")).N1
            /\ \A i \in 1..Len(w07s) :
                  W07LoopOf(json_structure)[i].W07 = W07Entry(split(w07s[i], "*")).W07

(***************************************************************************)
(* C9: the returned W07Loop has exactly one entry per W07-tagged segment   *)
(* and N1Loop exactly one per N1-tagged segment (none, and no N1Loop key,  *)
(* without N1 segments), the i-th entry carrying the fields of the i-th    *)
(* such segment.                                                           *)
(***************************************************************************)
C9_OneEntryPerSegmentInOrder ==
    Done =>
        LET w07s == Tagged(segments, "W07")
            n1s == Tagged(segments, "N1")
            w07loop == W07LoopOf(json_structure)
            n1loop == N1LoopOf(json_structure)
        IN  /\ Len(w07loop) = Len(w07s)
            /\ \A i \in 1..Len(w07s) :
                  w07loop[i].W07 = W07Entry(split(w07s[i], "*")).W07
            /\ Len(n1loop) = Len(n1s)
            /\ \A i \in 1..Len(n1s) :
                  n1loop[i].N1 = N1Entry(split(n1s[i], "*")).N1
            /\ ("N1Loop" \in DOMAIN json_structure.header) <=> (n1s # <<>>)

C9_Witness ==
    /\ Done
    /\ Len(Tagged(segments, "W07")) = 2
    /\ Len(Tagged(segments, "N1")) = 2
    /\ Tagged(segments, "W07")[1] # Tagged(segments, "W07")[2]
    /\ Tagged(segments, "N1")[1] # Tagged(segments, "N1")[2]

(***************************************************************************)
(* C10: every W07Loop entry whose region (up to the next W07) holds no G69 *)
(* segment has a G69 field, and that field is "".                          *)
(***************************************************************************)
RegionHasG69(m) ==
    \E k \in (W07At[m] + 1)..RegionEnd(m) : HasTagAt(k, "G69")

C10_G69DefaultsToEmpty ==
    Done =>
        \A m \in 1..Len(W07LoopOf(json_structure)) :
            ~RegionHasG69(m) =>
                /\ "G69" \in DOMAIN W07LoopOf(json_structure)[m]
                /\ W07LoopOf(json_structure)[m]["G69"] = <<>>

(***************************************************************************)
(* C11: a G69 segment processed in detail context with a W07 open sets the *)
(* G69 field of the last W07Loop entry to the segment's element 1 ("" when *)
(* the segment has none), a plain string, keeps that entry's W07 and N9,   *)
(* and leaves every earlier W07Loop entry as it was.                       *)
(***************************************************************************)
C11_G69SetsLastEntryOnly ==
    [][ (pc = "walk" /\ G69Applies) =>
            LET loop == W07LoopOf(json_structure)
                after == W07LoopOf(json_structure')
                last == Len(loop)
            IN  /\ last >= 1
                /\ Len(after) = last
                /\ "G69" \in DOMAIN after[last]
                /\ after[last]["G69"] = ElementOr(elements, 1)
                /\ after[last].W07 = loop[last].W07
                /\ after[last].N9 = loop[last].N9
                /\ \A i \in 1..(last - 1) : after[i] = loop[i]
      ]_vars

\* A G69 without elements has just been stored on the second entry, the
\* first entry keeping the description it got earlier.
C11_Witness ==
    /\ pos = 5
    /\ HasTagAt(4, "G69")
    /\ Len(split(segments[4], "*")) = 1
    /\ Len(W07LoopOf(json_structure)) = 2
    /\ "G69" \in DOMAIN W07LoopOf(json_structure)[1]
    /\ W07LoopOf(json_structure)[1]["G69"] = <<"DESC">>
    /\ "G69" \in DOMAIN W07LoopOf(json_structure)[2]
    /\ W07LoopOf(json_structure)[2]["G69"] = <<>>

(***************************************************************************)
(* C12: when the main walk wrote header.W17 (some W17 segment has 7 or     *)
(* more elements), the W17 backfill finds its condition false, and the     *)
(* returned header.W17 is the value the main walk wrote, the record of the *)
(* last such segment, even when another W17 segment (say an earlier short  *)
(* one) exists.                                                            *)
(***************************************************************************)
C12_WalkW17Suppresses ==
    /\ (pc = "w17_backfill" /\ "W17" \in DOMAIN json_structure.header)
           => ~W17BackfillCondition(json_structure, segments)
    /\ (Done /\ "W17" \in DOMAIN walk_result.header)
           => /\ "W17" \in DOMAIN json_structure.header
              /\ json_structure.header["W17"] = walk_result.header["W17"]
              /\ LongW17s # <<>>
              /\ json_structure.header["W17"] =
                     W17Record(split(LongW17s[Len(LongW17s)], "*"))

\* A short W17 comes first, a long one later: the long one's record stays.
C12_Witness ==
    /\ Done
    /\ Len(Tagged(segments, "W17")) >= 2
    /\ Len(split(Tagged(segments, "W17")[1], "*")) < 7
    /\ DOMAIN json_structure.header = {"W17"}
    /\ json_structure.header["W17"].numberOfLines = <<"9">>

(***************************************************************************)
(* C13: the repair pass only adds.  From the end of the main walk to the   *)
(* return, every key of the document, of its header and of its summary,    *)
(* every N1Loop and W07Loop entry (with its N9 entries and fields) and     *)
(* every value the main walk left is still there, equal and at the same    *)
(* position.                                                               *)
(***************************************************************************)
InRepair == pc \in {"w17_backfill", "n1loop_backfill", "w07loop_backfill",
                    "summary_backfill", "done"}

\* a is a prefix of b
IsPrefix(a, b) == Len(a) <= Len(b) /\ SubSeq(b, 1, Len(a)) = a

\* Every key of dict a is a key of b with the same value.
SubDict(a, b) == DOMAIN a \subseteq DOMAIN b /\ \A k \in DOMAIN a : b[k] = a[k]

Extends(before, after) ==
    /\ DOMAIN before \subseteq DOMAIN after
    /\ after.transactionSet = before.transactionSet
    /\ SubDict(before.header, after.header)
    /\ DOMAIN before.detail \subseteq DOMAIN after.detail
    /\ IsPrefix(before.detail.W07Loop, after.detail.W07Loop)
    /\ SubDict(before.summary, after.summary)

C13_RepairOnlyAdds == InRepair => Extends(walk_result, json_structure)

\* The repair pass added header.W17 to a document whose detail and summary
\* the main walk had filled.
C13_Witness ==
    /\ Done
    /\ json_structure # walk_result
    /\ W07LoopOf(walk_result) # <<>>
    /\ W07LoopOf(walk_result)[1].N9 # <<>>
    /\ DOMAIN walk_result.summary # {}

(***************************************************************************)
(* C14: backfill independence.  Whether a backfill runs is determined by   *)
(* its own section and its own tag only: the W17 backfill runs exactly     *)
(* when header.W17 is absent and a W17 segment exists, the N1Loop backfill *)
(* exactly when header.N1Loop is absent and an N1 segment exists, the      *)
(* W07Loop backfill exactly when detail.W07Loop is empty and a W07 segment *)
(* exists, the summary backfill exactly when the summary is empty and a    *)
(* W13 or W14 segment exists; so the N1, W07, W13 and W14 segments have no *)
(* influence on the W17 backfill and on the returned header.W17.           *)
(***************************************************************************)
C14_BackfillsIndependent ==
    /\ pc = "w17_backfill" =>
          ( W17BackfillCondition(json_structure, segments)
            <=> ("W17" \notin DOMAIN json_structure.header
                 /\ Tagged(segments, "W17") # <<>>) )
    /\ pc = "n1loop_backfill" =>
          ( N1LoopBackfillCondition(json_structure, segments)
            <=> ("N1Loop" \notin DOMAIN json_structure.header
                 /\ Tagged(segments, "N1") # <<>>) )
    /\ pc = "w07loop_backfill" =>
          ( W07LoopBackfillCondition(json_structure, segments)
            <=> (json_structure.detail.W07Loop = <<>>
                 /\ Tagged(segments, "W07") # <<>>) )
    /\ pc = "summary_backfill" =>
          ( SummaryBackfillCondition(json_structure, segments)
            <=> (DOMAIN json_structure.summary = {}
                 /\ SummarySegments # <<>>) )
    /\ Done =>
          ( "W17" \in DOMAIN json_structure.header
            <=> ("W17" \in DOMAIN walk_result.header \/ Tagged(segments, "W17") # <<>>) )

(***************************************************************************)
(* C15: positional defaulting.  Every record of the returned document has  *)
(* all of its fields (W17: 7, N1: 2, N9: 2, W07: 5, W13/W14: 1), the field *)
(* at position i holding element i of the segment the record was made from *)
(* when the segment has that many elements and "" otherwise.               *)
(***************************************************************************)
W17Fields == <<"receiptType", "date", "receiptNumber", "shipmentNumber",
               "containerNumber", "numberOfLines", "totalQuantity">>

N1Fields == <<"entityIdentifier", "name">>

N9Fields == <<"referenceIdQualifier", "referenceId">>

W07Fields == <<"quantity", "unitOfMeasure", "upc", "productIdQualifier", "productId">>

SummaryFields == <<"totalQuantity">>

\* The record whose i-th field is element i of the segment, "" beyond its end.
Positional(s, fields) ==
    LET el == split(s, "*")
    IN  [f \in Range(fields) |->
            LET i == CHOOSE j \in 1..Len(fields) : fields[j] = f
            IN  IF i + 1 <= Len(el) THEN el[i + 1] ELSE <<>>]

\* The N9 records of a list of N9 segments, in the order of the list.
Positionals(n9segs) == [k \in 1..Len(n9segs) |-> Positional(n9segs[k], N9Fields)]

C15_PositionalDefaulting ==
    Done =>
        LET n1s == Tagged(segments, "N1")
            w07s == Tagged(segments, "W07")
            n9s == Tagged(segments, "N9")
            n9all == AllN9(json_structure)
        IN  /\ "W17" \in DOMAIN json_structure.header =>
                  \E k \in 1..Len(segments) :
                      /\ HasTagAt(k, "W17")
                      /\ json_structure.header["W17"] = Positional(segments[k], W17Fields)
            /\ Len(N1LoopOf(json_structure)) = Len(n1s)
            /\ \A i \in 1..Len(n1s) :
                  N1LoopOf(json_structure)[i].N1 = Positional(n1s[i], N1Fields)
            /\ Len(W07LoopOf(json_structure)) = Len(w07s)
            /\ \A i \in 1..Len(w07s) :
                  W07LoopOf(json_structure)[i].W07 = Positional(w07s[i], W07Fields)
            /\ \A i \in 1..Len(n9all) :
                  \E k \in 1..Len(n9s) : n9all[i] = Positional(n9s[k], N9Fields)
            /\ \A t \in DOMAIN json_structure.summary :
                  \E k \in 1..Len(segments) :
                      /\ HasTagAt(k, t)
                      /\ json_structure.summary[t] = Positional(segments[k], SummaryFields)

\* Segments made of a tag alone next to a W17 segment with every element.
C15_Witness ==
    /\ Done
    /\ "W17" \in DOMAIN json_structure.header
    /\ json_structure.header["W17"].totalQuantity = <<"1337">>
    /\ N1LoopOf(json_structure) # <<>>
    /\ N1LoopOf(json_structure)[1].N1.entityIdentifier = <<>>
    /\ AllN9(json_structure) # <<>>
    /\ AllN9(json_structure)[1].referenceIdQualifier = <<>>

(***************************************************************************)
(* C16: an N9 segment processed when neither the header context with an N1 *)
(* open nor the detail context with a W07 open holds, while header.N1Loop  *)
(* is non-empty (an N9 after a W13 or W14, say), is appended to the N9     *)
(* list of the last N1Loop entry; no other N1Loop entry and no W07Loop     *)
(* entry changes.                                                          *)
(***************************************************************************)
N9OutOfContext ==
    /\ pc = "walk"
    /\ elements[1] = <<"N9">>
    /\ ~(current_section = "header" /\ current_n1 # 0)
    /\ ~(current_section = "detail" /\ current_w07 # 0)

C16_FallbackToLastN1 ==
    [][ (N9OutOfContext /\ N1LoopOf(json_structure) # <<>>) =>
            LET loop == N1LoopOf(json_structure)
                after == N1LoopOf(json_structure')
                last == Len(loop)
            IN  /\ Len(after) = last
                /\ after[last].N9 = Append(loop[last].N9, Positional(segment, N9Fields))
                /\ after[last].N1 = loop[last].N1
                /\ \A i \in 1..(last - 1) : after[i] = loop[i]
                /\ W07LoopOf(json_structure') = W07LoopOf(json_structure)
      ]_vars

\* Two N1 entries exist, a summary segment closed the header context, and
\* the N9 that followed went to the second N1 entry.
C16_Witness ==
    /\ pos = 5
    /\ HasTagAt(4, "N9")
    /\ current_section = "summary"
    /\ Len(N1LoopOf(json_structure)) = 2
    /\ N1LoopOf(json_structure)[1].N9 = <<>>
    /\ N1LoopOf(json_structure)[2].N9 = <<Positional(segments[4], N9Fields)>>

(***************************************************************************)
(* N1 regions: the segments after an N1 segment up to the next N1          *)
(***************************************************************************)
N1At == IndicesWhere([k \in 1..Len(segments) |-> HasTagAt(k, "N1")])

N1RegionEnd(i) == IF i < Len(N1At) THEN N1At[i + 1] - 1 ELSE Len(segments)

\* The N9 segments that follow the i-th N1 with no W07, W13, W14 or other
\* N1 segment in between.
N9sRightAfterN1(i) ==
    LET keep == [k \in 1..Len(segments) |->
                    /\ k > N1At[i] /\ k <= N1RegionEnd(i) /\ HasTagAt(k, "N9")
                    /\ \A j \in (N1At[i] + 1)..(k - 1) :
                          TagOf(segments[j]) \notin {<<"W07">>, <<"W13">>, <<"W14">>}]
        at == IndicesWhere(keep)
    IN  [n \in 1..Len(at) |-> segments[at[n]]]

\* The N9 segments of the i-th N1's region that are not met in detail context.
N1RegionN9s(i) ==
    LET keep == [k \in 1..Len(segments) |->
                    /\ k > N1At[i] /\ k <= N1RegionEnd(i) /\ HasTagAt(k, "N9")
                    /\ ~InDetailAt(k)]
        at == IndicesWhere(keep)
    IN  [n \in 1..Len(at) |-> segments[at[n]]]

(***************************************************************************)
(* C17: the N9 segments that follow an N1 segment with no W07, W13 or W14  *)
(* segment in between are the first N9 entries of that N1's entry (the     *)
(* nearest preceding N1, not an earlier one), in source order; and the N9  *)
(* list of every N1Loop and W07Loop entry lists its N9 segments in the     *)
(* order in which they stand in the source.                                *)
(***************************************************************************)
C17_NearestN1InSourceOrder ==
    Done =>
        /\ Len(N1LoopOf(json_structure)) = Len(N1At)
        /\ \A i \in 1..Len(N1At) :
              /\ IsPrefix(Positionals(N9sRightAfterN1(i)), N1LoopOf(json_structure)[i].N9)
              /\ N1LoopOf(json_structure)[i].N9 = Positionals(N1RegionN9s(i))
        /\ Len(W07LoopOf(json_structure)) = Len(W07At)
        /\ \A m \in 1..Len(W07At) :
              W07LoopOf(json_structure)[m].N9 = Positionals(RegionN9sInContext(m))

\* Two different N9 segments follow the second of two N1 segments.
C17_Witness ==
    /\ Done
    /\ Len(N1At) = 2
    /\ N1LoopOf(json_structure)[1].N9 = <<>>
    /\ Len(N1LoopOf(json_structure)[2].N9) = 2
    /\ N1LoopOf(json_structure)[2].N9[1] # N1LoopOf(json_structure)[2].N9[2]
    /\ Len(N9sRightAfterN1(2)) = 2

(***************************************************************************)
(* C18: transactionSet is "944" in the document from the skeleton to the   *)
(* return, for every input: with an ST*944 segment, with an ST segment     *)
(* whose second element is something else, and without any ST segment.     *)
(***************************************************************************)
C18_TransactionSetIs944 ==
    pc # "start" => json_structure.transactionSet = <<"944">>

\* The only ST segment announces another transaction set.
C18_Witness ==
    /\ Done
    /\ Tagged(segments, "ST") # <<>>
    /\ \A k \in 1..Len(segments) :
          HasTagAt(k, "ST") => split(segments[k], "*")[2] # <<"944">>
    /\ W07LoopOf(json_structure) # <<>>
    /\ json_structure.transactionSet = <<"944">>

(***************************************************************************)
(* C19: _direct_parser is deterministic and keeps nothing between calls.   *)
(* In a series of calls every call that gets the input of an earlier call  *)
(* returns a document equal to the one returned then, whatever inputs were *)
(* parsed before either; and each call starts from a fresh skeleton and a  *)
(* fresh context.                                                          *)
(***************************************************************************)
C19_SameInputSameDocument ==
    /\ Done => \A r \in returned : r[1] = edi_data => r[2] = json_structure
    /\ (pc \notin {"start", "done"} /\ pos = 1) =>
          /\ json_structure = Skeleton
          /\ current_section = "none" /\ current_w07 = 0 /\ current_n1 = 0

\* The third call gets the input of the first, after a call on another input
\* that filled another document, and returns the document of the first.
C19_Witness ==
    /\ Done
    /\ calls = 3
    /\ Cardinality(returned) = 2
    /\ \E r \in returned : r[1] = edi_data /\ r[2] = json_structure
    /\ \E r \in returned : r[1] # edi_data /\ N1LoopOf(r[2]) # <<>>
    /\ N1LoopOf(json_structure) = <<>>
    /\ W07LoopOf(json_structure) # <<>>

(***************************************************************************)
(* C20: for the empty input string the call returns exactly the skeleton   *)
(* (transactionSet "944", empty header, detail with an empty W07Loop,      *)
(* empty summary) straight from its first step: neither the main walk nor  *)
(* any backfill is ever entered.                                           *)
(***************************************************************************)
C20_EmptyInputReturnsSkeleton ==
    edi_data = <<>> =>
        /\ pc \in {"start", "done"}
        /\ Done => json_structure = EmptySkeleton

\* The empty input is parsed after a call that filled a document.
C20_Witness ==
    /\ Done
    /\ edi_data = <<>>
    /\ calls >= 2
    /\ \E r \in returned : W07LoopOf(r[2]) # <<>>
    /\ json_structure = EmptySkeleton

(***************************************************************************)
(* Vocabulary of the properties of parse                                   *)
(***************************************************************************)
ParseReturned == parse_pc = "returned"

\* The JSON values the two searches got out of the answer.
ParsedValues(o) ==
    IF o.raises THEN {}
    ELSE {o[part].value : part \in {q \in {"fenced", "braces"} : o[q].found = "json"}}

PassesValidation(v) == ~validate_raises(v) /\ validate_result(v)

\* parse returned the document of one _direct_parser call on the cleaned input.
ReturnedDirectDocument ==
    /\ calls = 1
    /\ Done
    /\ edi_data = clean_edi_data(parse_edi_data)
    /\ parse_result = json_structure

(***************************************************************************)
(* C21: parse always returns (nothing raised inside it escapes), and what  *)
(* it returns is either a JSON value of the LLM answer that passes         *)
(* _validate_result, or else (the chain raised, the answer holds no JSON,  *)
(* the JSON does not parse, validation fails or raises) exactly the        *)
(* document of _direct_parser for the cleaned input.                       *)
(***************************************************************************)
C21_ValidatedOrDirect ==
    ParseReturned =>
        \/ /\ calls = 0
           /\ chain_invocations = 1
           /\ parse_result \in ParsedValues(output)
           /\ PassesValidation(parse_result)
        \/ ReturnedDirectDocument

C21_ParseNeverRaises == []C21_ValidatedOrDirect /\ <>ParseReturned

\* The fenced block held an object whose validation raises; the direct
\* parser's document came back instead.
C21_Witness ==
    /\ ParseReturned
    /\ chain_invocations = 1
    /\ ~output.raises
    /\ output.fenced.found = "json"
    /\ validate_raises(output.fenced.value)
    /\ output.braces.found = "json"
    /\ PassesValidation(output.braces.value)
    /\ ReturnedDirectDocument
    /\ N1LoopOf(parse_result) # <<>>

(***************************************************************************)
(* Vocabulary of the validation properties                                 *)
(***************************************************************************)
\* The container is an object with the key, or a string holding it.
HoldsKey(container, key) ==
    \/ IsDict(container) /\ key \in DOMAIN container
    \/ ~IsDict(container) /\ container.json_type = "string"
                          /\ contains(container.text, key)

\* An object with transactionSet, header.W17 and detail.W07Loop.
HasTheThree(v) ==
    /\ IsDict(v)
    /\ {"transactionSet", "header", "detail"} \subseteq DOMAIN v
    /\ IsDict(v.header) /\ "W17" \in DOMAIN v.header
    /\ IsDict(v.detail) /\ "W07Loop" \in DOMAIN v.detail

\* An object with the four top-level keys whose header holds W17 and whose
\* detail holds W07Loop.
HasTheFourKeys(v) ==
    /\ IsDict(v)
    /\ {"transactionSet", "header", "detail", "summary"} \subseteq DOMAIN v
    /\ HoldsKey(v.header, "W17")
    /\ HoldsKey(v.detail, "W07Loop")

\* The chain answered, and v is the value parse validates first.
FirstCandidate(v) ==
    /\ chain_invocations = 1
    /\ ~output.raises
    /\ \/ output.fenced = Parsed(v)
       \/ output.fenced = NoMatch /\ output.braces = Parsed(v)

ReturnedLLMValue(v) == ParseReturned /\ calls = 0 /\ parse_result = v

(***************************************************************************)
(* C22 as claimed: validation accepts a value exactly when it is an object *)
(* with transactionSet, header.W17 and detail.W07Loop: parse returns such  *)
(* an LLM value instead of the direct parser's document, and returns no    *)
(* other LLM value.                                                        *)
(***************************************************************************)
C22_ThreeKeysSuffice ==
    ParseReturned =>
        /\ \A v \in LLMValues :
              (FirstCandidate(v) /\ HasTheThree(v)) => ReturnedLLMValue(v)
        /\ calls = 0 => HasTheThree(parse_result)

(***************************************************************************)
(* C22 as amended: validation accepts a value exactly when it is an object *)
(* with the four top-level keys transactionSet, header, detail and summary *)
(* whose header holds W17 and whose detail holds W07Loop (a key of an      *)
(* object, or a substring of a string): parse returns such an LLM value,   *)
(* and returns no other; an answer with transactionSet, header.W17 and     *)
(* detail.W07Loop but no summary goes to the direct parser.                *)
(***************************************************************************)
C22_FourKeysRequired ==
    ParseReturned =>
        /\ \A v \in LLMValues :
              (FirstCandidate(v) /\ HasTheFourKeys(v)) => ReturnedLLMValue(v)
        /\ calls = 0 => HasTheFourKeys(parse_result)
        /\ \A v \in LLMValues :
              (FirstCandidate(v) /\ HasTheThree(v) /\ "summary" \notin DOMAIN v
                 /\ output.braces \in {NoMatch, Unparsable, Parsed(v)})
              => ReturnedDirectDocument

\* The answer has the three and no summary: the direct parser's document
\* is returned.
C22_Witness ==
    /\ ParseReturned
    /\ chain_invocations = 1
    /\ ~output.raises
    /\ output.fenced.found = "json"
    /\ HasTheThree(output.fenced.value)
    /\ "summary" \notin DOMAIN output.fenced.value
    /\ output.braces = output.fenced
    /\ ReturnedDirectDocument
    /\ W07LoopOf(parse_result) # <<>>

(***************************************************************************)
(* Vocabulary of the properties of process_edi_data                        *)
(***************************************************************************)
ProcReturned == proc_pc = "returned"

\* parse was called on its own, not by process_edi_data.
ParseAlone == proc_pc = "idle"

(***************************************************************************)
(* C23: with an empty credential the LLM chain is never invoked: parse     *)
(* returns the document of _direct_parser for its cleaned input, and       *)
(* process_edi_data, for an input that passes its checks, calls the direct *)
(* parser on the stripped input, never parse, and returns success with the *)
(* document of that call.                                                  *)
(***************************************************************************)
C23_NoCredentialNoChain ==
    api_key = "" =>
        /\ chain_invocations = 0
        /\ parse_pc # "invoke"
        /\ (ParseAlone /\ ParseReturned) => ReturnedDirectDocument
        /\ ~ParseAlone => parse_pc = "idle"
        /\ (ProcReturned /\ gate_passed) =>
              /\ faults = 0
              /\ calls = 1
              /\ Done
              /\ edi_data = strip(proc_edi_data)
              /\ proc_result[1] = TRUE
              /\ proc_result[2] = json_structure
              /\ proc_result[3] = "EDI data processed with direct parser"

\* No credential, the direct parser not asked for: process_edi_data still
\* returned the direct parser's document.
C23_Witness ==
    /\ api_key = ""
    /\ ProcReturned
    /\ gate_passed
    /\ ~use_direct_parser
    /\ proc_result[1] = TRUE
    /\ "W17" \in DOMAIN proc_result[2].header
    /\ W07LoopOf(proc_result[2]) # <<>>

(***************************************************************************)
(* C24: the caller's gate.  process_edi_data returns success only for a    *)
(* string that contains `~` and `*` and has a segment tagged W17 and a     *)
(* segment tagged N1 (the `~`-separated pieces, trimmed); for every other  *)
(* string it returns (False, None, message) and calls neither parse, the   *)
(* LLM chain nor the direct parser.                                        *)
(***************************************************************************)
HasSegmentTagged(text, tag) == Tagged(TrimmedPieces(text), tag) # <<>>

LooksLikeEDI(text) ==
    /\ contains(text, "~")
    /\ contains(text, "*")
    /\ HasSegmentTagged(text, "W17")
    /\ HasSegmentTagged(text, "N1")

C24_GateBySegmentTag ==
    (ProcReturned /\ input_type = "str") =>
        IF LooksLikeEDI(proc_edi_data)
        THEN TRUE
        ELSE /\ proc_result[1] = FALSE
             /\ proc_result[2] = None
             /\ calls = 0
             /\ chain_invocations = 0
             /\ parse_pc = "idle"

(***************************************************************************)
(* C25: once the input has passed the gate, a fault on the primary path    *)
(* (caught at line 151) is followed by exactly one call of the direct      *)
(* parser, on the raw input, whose document is returned with success; a    *)
(* failure (False, None, message) is returned only after that retry has    *)
(* failed too, never while the direct parser is still untried.             *)
(***************************************************************************)
C25_FaultRetriesDirectOnce ==
    gate_passed =>
        /\ faults <= 1
        /\ (faults = 1 /\ proc_pc \in {"fallback_direct", "returned"}) =>
              /\ calls = 1
              /\ edi_data = proc_edi_data
              /\ chain_invocations = 0
        /\ (faults = 1 /\ ProcReturned /\ Done) =>
              proc_result = <<TRUE, json_structure,
                              "EDI data processed with fallback direct parser">>
        /\ (ProcReturned /\ proc_result[1] = FALSE) =>
              /\ faults = 1
              /\ proc_result = <<FALSE, None, "Fallback parser also failed">>

\* Building the parser raised; the retry parsed the raw input, newline in
\* front included, and its document was returned.
C25_Witness ==
    /\ gate_passed
    /\ ProcReturned
    /\ faults = 1
    /\ proc_result[1] = TRUE
    /\ proc_edi_data # strip(proc_edi_data)
    /\ edi_data = proc_edi_data
    /\ N1LoopOf(proc_result[2]) # <<>>
    /\ W07LoopOf(proc_result[2]) # <<>>

(***************************************************************************)
(* FTPTransfer.transfer                                                    *)
(***************************************************************************)
TransferReturned == ftp_pc = "returned"

\* t is the transport the flags ask for.
FlagsSelect(t) ==
    /\ Flag("use_sftp") => t = "sftp"
    /\ (~Flag("use_sftp") /\ Flag("use_ftps")) => t = "ftps"
    /\ (~Flag("use_sftp") /\ ~Flag("use_ftps")) => t = "ftp"

IsSuccessMessagePair(r) ==
    /\ Len(r) = 2
    /\ r[1] \in BOOLEAN
    /\ r[2] # <<>>

TransportReportedFailure == transport_result # <<>> /\ transport_result[1] = FALSE

\* C26, as stated: every call of transfer that has returned used exactly one
\* transport, the one the flags select, returned a (success, message) pair,
\* and returned success false if the transport reported a failure.
C26_ExactlyOneTransport ==
    TransferReturned =>
        /\ Len(transports) = 1
        /\ FlagsSelect(transports[1])
        /\ IsSuccessMessagePair(ftp_result)
        /\ TransportReportedFailure => ftp_result[1] = FALSE

\* What holds of a transfer at every moment.
C26_AtMostTheChosenTransport ==
    /\ Len(transports) <= 1
    /\ \A i \in 1..Len(transports) : FlagsSelect(transports[i])
    /\ \A u \in uploaded : transports = <<u[1]>>
    /\ TransferReturned =>
          /\ IsSuccessMessagePair(ftp_result)
          /\ (transports = <<>>) <=> (temp_file \in {"none", "empty"})
          /\ transports = <<>> => (ftp_result = TransferFailed /\ uploaded = {})
          /\ TransportReportedFailure => ftp_result[1] = FALSE
          /\ ftp_result[1] = TRUE =>
                uploaded = {<<transports[1], RemoteFilename, temp_content>>}

(***************************************************************************)
(* C26, amended: a call of transfer uses at most one transport, the one    *)
(* the flags select (SFTP when use_sftp is set, otherwise FTPS when        *)
(* use_ftps is set, otherwise plain FTP), and exactly one once the         *)
(* temporary file has been written; when creating or writing the           *)
(* temporary file raises, no transport is used and (False, "Transfer       *)
(* failed: ...") is returned.  The call always returns a (success,         *)
(* message) pair, with success false whenever the transport reported a     *)
(* failure.                                                                *)
(***************************************************************************)
C26_ChosenTransportAndPair == []C26_AtMostTheChosenTransport /\ <>TransferReturned

\* Both flags are set: SFTP was used, it reported a failure, and transfer
\* returned that failure after removing the temporary file.
C26_Witness ==
    /\ TransferReturned
    /\ Flag("use_sftp")
    /\ Flag("use_ftps")
    /\ transports = <<"sftp">>
    /\ TransportReportedFailure
    /\ ftp_result = <<FALSE, <<"SFTP error">>>>
    /\ temp_file = "removed"

(***************************************************************************)
(* C27: pointer invariant of the main walk.  After every processed         *)
(* segment current_n1 is None and header has no N1Loop, or it is the last  *)
(* entry of header.N1Loop; current_w07 is None and detail.W07Loop is       *)
(* empty, or it is the last entry of detail.W07Loop.                       *)
(***************************************************************************)
Called == pc \notin {"idle", "start"}

C27_PointersAreLastEntries ==
    Called =>
        /\ IF "N1Loop" \in DOMAIN json_structure.header
           THEN /\ json_structure.header["N1Loop"] # <<>>
                /\ current_n1 = Len(json_structure.header["N1Loop"])
           ELSE current_n1 = 0
        /\ current_w07 = Len(json_structure.detail.W07Loop)

\* Two N1 entries and one W07 entry, the walk still running: each pointer
\* is on the last entry of its loop.
C27_Witness ==
    /\ pc = "walk"
    /\ Len(N1LoopOf(json_structure)) = 2
    /\ current_n1 = 2
    /\ Len(W07LoopOf(json_structure)) = 1
    /\ current_w07 = 1

(***************************************************************************)
(* C28: current_section after each segment is the section of the most      *)
(* recent section-setting segment: header after ST with second element     *)
(* 944, after any W17 and after any N1, detail after any W07, summary      *)
(* after any W13 or W14, none before the first such segment.               *)
(***************************************************************************)
SectionSetBy(s) ==
    LET e == split(s, "*") IN
    IF e[1] = <<"ST">> /\ Len(e) > 1 /\ e[2] = <<"944">> THEN "header"
    ELSE IF e[1] \in {<<"W17">>, <<"N1">>} THEN "header"
    ELSE IF e[1] = <<"W07">> THEN "detail"
    ELSE IF e[1] \in {<<"W13">>, <<"W14">>} THEN "summary"
    ELSE "unset"

\* Number of segments the loop has processed.
Processed == IF pc = "walk" THEN pos - 1 ELSE Len(segments)

ExpectedSection(n) ==
    LET setting == {k \in 1..n : SectionSetBy(segments[k]) # "unset"} IN
    IF setting = {} THEN "none"
    ELSE SectionSetBy(segments[CHOOSE k \in setting : \A j \in setting : j <= k])

C28_SectionFollowsLastSetter == Called => current_section = ExpectedSection(Processed)

\* A W17 too short to be stored, coming after a W07, set the section back to
\* header, and the segment after it left it there.
C28_Witness ==
    /\ Called
    /\ Processed = 3
    /\ TagOf(segments[1]) = <<"W07">>
    /\ TagOf(segments[2]) = <<"W17">>
    /\ Len(split(segments[2], "*")) < 7
    /\ SectionSetBy(segments[3]) = "unset"
    /\ current_section = "header"

(***************************************************************************)
(* C29: a segment that matches no branch leaves the document and the walk  *)
(* state unchanged: a tag other than ST, W17, N1, N9, W07, G69, W13, W14,  *)
(* an ST whose second element is not 944, a G69 outside detail or with no  *)
(* open W07, an N9 with no eligible parent.                                *)
(***************************************************************************)
Unmatched ==
    LET t == elements[1] IN
    \/ t \notin {<<"ST">>, <<"W17">>, <<"N1">>, <<"N9">>, <<"W07">>, <<"G69">>,
                 <<"W13">>, <<"W14">>}
    \/ t = <<"ST">> /\ ~(Len(elements) > 1 /\ elements[2] = <<"944">>)
    \/ t = <<"G69">> /\ (current_section # "detail" \/ current_w07 = 0)
    \/ /\ t = <<"N9">>
       /\ ~(current_section = "header" /\ current_n1 # 0)
       /\ ~(current_section = "detail" /\ current_w07 # 0)
       /\ N1LoopOf(json_structure) = <<>>

C29_UnmatchedChangesNothing ==
    [][ (pc = "walk" /\ Unmatched) =>
            UNCHANGED <<json_structure, current_section, current_n1, current_w07>> ]_vars

\* A G69 met in the header section, an N1 entry open, went by.
C29_Witness ==
    /\ Called
    /\ Processed >= 2
    /\ TagOf(segments[Processed]) = <<"G69">>
    /\ current_section = "header"
    /\ current_n1 = 1
    /\ current_w07 = 0
    /\ json_structure.detail.W07Loop = <<>>

(***************************************************************************)
(* The W07Loop backfill block                                              *)
(***************************************************************************)
\* The block has built the entries of W07Loop.
BackfillBuilt ==
    /\ pc \in {"summary_backfill", "done"}
    /\ W07LoopOf(walk_result) = <<>>
    /\ W07LoopOf(json_structure) # <<>>

\* Positions of the W07 segments, as the block recognises them, ascending.
BackfillW07At == IndicesWhere([k \in 1..Len(segments) |-> IsW07(segments[k])])

\* The segments strictly after the m-th W07 segment and before the next one.
OwnedRegion(m) ==
    SubSeq(segments, BackfillW07At[m] + 1,
           IF m < Len(BackfillW07At) THEN BackfillW07At[m + 1] - 1 ELSE Len(segments))

WithoutW17(header) == [k \in (DOMAIN header) \ {"W17"} |-> header[k]]

C31_OnlyW17BackfillActs ==
    InRepair =>
        /\ "N1Loop" \notin DOMAIN walk_result.header => Tagged(segments, "N1") = <<>>
        /\ W07LoopOf(walk_result) = <<>> => Tagged(segments, "W07") = <<>>
        /\ DOMAIN walk_result.summary = {} =>
              (Tagged(segments, "W13") = <<>> /\ Tagged(segments, "W14") = <<>>)
        /\ pc = "n1loop_backfill" => ~N1LoopBackfillCondition(json_structure, segments)
        /\ pc = "w07loop_backfill" => ~W07LoopBackfillCondition(json_structure, segments)
        /\ pc = "summary_backfill" => ~SummaryBackfillCondition(json_structure, segments)
        /\ json_structure.transactionSet = walk_result.transactionSet
        /\ WithoutW17(json_structure.header) = WithoutW17(walk_result.header)
        /\ json_structure.detail = walk_result.detail
        /\ json_structure.summary = walk_result.summary

\* The W17 backfill changed the header of a document whose W07Loop and
\* summary the walk had filled; the other three backfills passed over it.
C31_Witness ==
    /\ Done
    /\ json_structure.header # walk_result.header
    /\ Tagged(segments, "W07") # <<>>
    /\ Tagged(segments, "W13") # <<>>

(***************************************************************************)
(* C32: an N9 segment is dropped exactly when, at the moment it is         *)
(* processed, no N1 segment has been seen and current_section is not       *)
(* detail: the step that processes it leaves the document as it is in that *)
(* case and in no other; and the repair pass does not bring it back: the   *)
(* N9 entries of the returned document are those of the N9 segments that   *)
(* were not dropped, N1 or W07 segments coming later or not.               *)
(***************************************************************************)
\* The k-th segment is an N9 met before every N1 and outside detail.
DroppedAt(k) ==
    /\ HasTagAt(k, "N9")
    /\ ~N1Before(k)
    /\ ExpectedSection(k - 1) # "detail"

KeptN9s ==
    LET at == IndicesWhere([k \in 1..Len(segments) |->
                               HasTagAt(k, "N9") /\ ~DroppedAt(k)])
    IN  [i \in 1..Len(at) |-> segments[at[i]]]

C32_DroppedForGood ==
    Done =>
        /\ SubBag(AllN9(json_structure), EntriesOf(KeptN9s))
        /\ SubBag(EntriesOf(KeptN9s), AllN9(json_structure))
        /\ Len(AllN9(json_structure)) = Len(KeptN9s)

C32_DroppedExactlyWithoutParent ==
    /\ [][ (pc = "walk" /\ elements[1] = <<"N9">>) =>
              ((json_structure' = json_structure) <=>
                  (~N1Before(pos) /\ current_section # "detail")) ]_vars
    /\ []C32_DroppedForGood

\* The first segment is an N9 that was dropped; an N1 and a second N9
\* follow it, and the returned document has the second N9 only.
C32_Witness ==
    /\ Done
    /\ Len(segments) = 3
    /\ DroppedAt(1)
    /\ Tagged(segments, "N1") # <<>>
    /\ Len(Tagged(segments, "N9")) = 2
    /\ Len(AllN9(json_structure)) = 1
    /\ N9Entry(split(segments[1], "*")) \notin Range(AllN9(json_structure))

(***************************************************************************)
(* C33: without a credential, for every input that passes the gate of      *)
(* process_edi_data, the document of its direct path (strip, then          *)
(* _direct_parser) equals the document EDIParser.parse returns for the     *)
(* same input with an empty key (_clean_edi_data, then _direct_parser),    *)
(* newlines and repeated blanks between or inside segments included.       *)
(***************************************************************************)
BothPathsReturned ==
    /\ ProcReturned
    /\ gate_passed
    /\ proc_result[1] = TRUE
    /\ parse_pc = "returned"

C33_PathsAgree == BothPathsReturned => proc_result[2] = parse_result

====
